---------------------------- MODULE Spec2Model ----------------------------
(***************************************************************************)
(* Model of the spiral chip-removal groove tool: the geometry calculator   *)
(* (SpiralCalculator), the main window's submit and paint handlers         *)
(* (MainWindow) and the AutoCAD refinement pass (AutoCADDrawer).           *)
(*                                                                         *)
(* A C++ double is modelled as an IEEE 754 binary64 number: sign, exponent *)
(* and a significand of 53 bits, with signed zeros, subnormals, infinities *)
(* and nan.  +, -, * and / round to nearest, ties to even, as the code's   *)
(* do.  M_PI is the double 0x1.921fb54442d18p+1, and tan() is a table of   *)
(* the doubles the C library returns for the angles the model draws.       *)
(***************************************************************************)
EXTENDS Integers, Sequences, FiniteSets, TLC

(***************************************************************************)
(* double arithmetic                                                       *)
(***************************************************************************)
\* the range of int
INT_MAX == 2147483647
INT_MIN == -2147483647 - 1

Abs(x) == IF x < 0 THEN -x ELSE x

\* A significand is held as four digits of 14 bits, the most significant
\* first: 56 bits, of which a double uses the upper 53.
Limb == 16384

NoBits == <<0, 0, 0, 0>>

\* the exponent range of a double, and the bits of a significand below its 53
EMax == 1023
EMin == -1022
GuardBits == 3

\* A double is nan, an infinity with its sign s, or the finite number
\* s * m * 2^(e - 55), m read as one integer below 2^56.  m has its top bit set
\* unless the number is subnormal or zero, which have e = EMin.
NaN == [k |-> "nan", s |-> 1, e |-> 0, m |-> NoBits]
Inf(s) == [k |-> "inf", s |-> s, e |-> 0, m |-> NoBits]
SignedZero(s) == [k |-> "fin", s |-> s, e |-> EMin, m |-> NoBits]
Zero == SignedZero(1)

\* the finite double of sign s, exponent e and significand m
Double(s, e, m) == [k |-> "fin", s |-> s, e |-> e, m |-> m]

IsNaN(a) == a.k = "nan"
IsInf(a) == a.k = "inf"
IsFinite(a) == a.k = "fin"
IsZero(a) == a.k = "fin" /\ a.m = NoBits

\* -1, 0 or 1; of a nan and of either zero, 0
Sign(a) == IF IsNaN(a) \/ IsZero(a) THEN 0 ELSE a.s

Neg(a) == IF IsNaN(a) THEN a ELSE [a EXCEPT !.s = -a.s]

\* fabs
Fabs(a) == IF IsNaN(a) THEN a ELSE [a EXCEPT !.s = 1]

\* the number of bits of x: 0 for 0
RECURSIVE BitLen(_)
BitLen(x) == IF x = 0 THEN 0 ELSE 1 + BitLen(x \div 2)

\* the leading zero bits of the 56-bit m (56 for m = 0): those of its first
\* digit i that is not 0, or of its last
LeadingZeros(m) ==
    LET ZerosTo(i) == 14 * i - BitLen(m[i])
    IN  ZerosTo(IF m[1] # 0 THEN 1 ELSE IF m[2] # 0 THEN 2 ELSE IF m[3] # 0 THEN 3 ELSE 4)

\* m >> n for n >= 0, and whether a set bit was shifted out: d is m moved
\* q = n \div 14 whole digits down, then the n % 14 bits that remain
ShiftDown(m, n) ==
    LET BitsDown(d, digitsLost, lo, hi) ==
            [m |-> <<d[1] \div lo,
                     (d[1] % lo) * hi + d[2] \div lo,
                     (d[2] % lo) * hi + d[3] \div lo,
                     (d[3] % lo) * hi + d[4] \div lo>>,
             lost |-> digitsLost \/ d[4] % lo # 0]
        DigitsDown(q) ==
            BitsDown(CASE q = 0 -> m
                       [] q = 1 -> <<0, m[1], m[2], m[3]>>
                       [] q = 2 -> <<0, 0, m[1], m[2]>>
                       [] q = 3 -> <<0, 0, 0, m[1]>>
                       [] OTHER -> NoBits,
                     CASE q = 0 -> FALSE
                       [] q = 1 -> m[4] # 0
                       [] q = 2 -> m[3] # 0 \/ m[4] # 0
                       [] q = 3 -> m[2] # 0 \/ m[3] # 0 \/ m[4] # 0
                       [] OTHER -> m # NoBits,
                     2^(n % 14), 2^(14 - (n % 14)))
    IN  DigitsDown(n \div 14)

\* m << n for 0 <= n <= LeadingZeros(m): d is m moved q = n \div 14 whole
\* digits up, then the n % 14 bits that remain
ShiftUp(m, n) ==
    LET BitsUp(d, hi, lo) ==
            <<(d[1] % lo) * hi + d[2] \div lo,
              (d[2] % lo) * hi + d[3] \div lo,
              (d[3] % lo) * hi + d[4] \div lo,
              (d[4] % lo) * hi>>
        DigitsUp(q) ==
            BitsUp(CASE q = 0 -> m
                     [] q = 1 -> <<m[2], m[3], m[4], 0>>
                     [] q = 2 -> <<m[3], m[4], 0, 0>>
                     [] q = 3 -> <<m[4], 0, 0, 0>>
                     [] OTHER -> NoBits,
                   2^(n % 14), 2^(14 - (n % 14)))
    IN  DigitsUp(n \div 14)

\* a + b as five digits, the first the carry out of 56 bits; c3, c2, c1 are
\* the carries out of the digits 4, 3 and 2
Plus(a, b) ==
    LET Carried(c1, c2, c3) ==
            <<(a[1] + b[1] + c1) \div Limb, (a[1] + b[1] + c1) % Limb,
              (a[2] + b[2] + c2) % Limb, (a[3] + b[3] + c3) % Limb,
              (a[4] + b[4]) % Limb>>
        Carry2(c2, c3) == Carried((a[2] + b[2] + c2) \div Limb, c2, c3)
        Carry3(c3) == Carry2((a[3] + b[3] + c3) \div Limb, c3)
    IN  Carry3((a[4] + b[4]) \div Limb)

\* a - b for a >= b; b3, b2, b1 are the borrows out of the digits 4, 3 and 2
Minus(a, b) ==
    LET Borrowed(b1, b2, b3) ==
            <<a[1] - b[1] - b1, (a[2] - b[2] - b2) % Limb,
              (a[3] - b[3] - b3) % Limb, (a[4] - b[4]) % Limb>>
        Borrow2(b2, b3) == Borrowed(IF a[2] - b[2] - b2 < 0 THEN 1 ELSE 0, b2, b3)
        Borrow3(b3) == Borrow2(IF a[3] - b[3] - b3 < 0 THEN 1 ELSE 0, b3)
    IN  Borrow3(IF a[4] - b[4] < 0 THEN 1 ELSE 0)

\* -1, 0 or 1 as the integer a is below, equal to or above b
CmpBits(a, b) ==
    IF a[1] # b[1] THEN (IF a[1] < b[1] THEN -1 ELSE 1)
    ELSE IF a[2] # b[2] THEN (IF a[2] < b[2] THEN -1 ELSE 1)
    ELSE IF a[3] # b[3] THEN (IF a[3] < b[3] THEN -1 ELSE 1)
    ELSE IF a[4] # b[4] THEN (IF a[4] < b[4] THEN -1 ELSE 1)
    ELSE 0

\* The finite number s * m * 2^(e - 55) for e >= EMin, any m, as it is held:
\* m moved up by its lz leading zeros, or as far as EMin allows
Held(s, e, m, lz) ==
    LET MovedUp(n) == [k |-> "fin", s |-> s, e |-> e - n, m |-> ShiftUp(m, n)]
    IN  IF m = NoBits THEN SignedZero(s)
        ELSE MovedUp(IF e - lz >= EMin THEN lz ELSE e - EMin)

\* ... or the infinity, when it lies above the largest exponent emax
Bounded(s, e, m, lz, emax) ==
    IF m # NoBits /\ e - lz > emax THEN Inf(s) ELSE Held(s, e, m, lz)

\* m, with the bits already lost below it, rounded to a multiple of 8, as
\* five digits: to nearest, ties to even
Rounded(m, lost) ==
    IF \/ m[4] % 8 > 4
       \/ m[4] % 8 = 4 /\ (lost \/ (m[4] \div 8) % 2 = 1)
    THEN Plus(<<m[1], m[2], m[3], m[4] - (m[4] % 8)>>, <<0, 0, 0, 8>>)
    ELSE <<0, m[1], m[2], m[3], m[4] - (m[4] % 8)>>

\* The number s * m * 2^(e - 55), m with its top bit set and lost telling
\* that bits below m are set, rounded to a format whose significand has
\* 53 - g bits and whose exponent runs from emin to emax: m is moved down by
\* n bits to t, so that the bits the format does not hold are the lowest
\* three, and t is rounded to r, in units of 2^(e + n - 55); a carry out of
\* r makes it the next power of two
Pack(s, e, m, lost, emin, emax, g) ==
    LET PackBits(e2, m2) == Bounded(s, e2, m2, LeadingZeros(m2), emax)
        PackRounded(n, r) ==
            PackBits(IF r[1] = 1 THEN e + n + 1 ELSE e + n,
                     IF r[1] = 1 THEN <<Limb \div 2, 0, 0, 0>>
                     ELSE <<r[2], r[3], r[4], r[5]>>)
        PackShifted(n, t) == PackRounded(n, Rounded(t.m, t.lost \/ lost))
        PackDown(n) == PackShifted(n, ShiftDown(m, n))
    IN  PackDown(g + (IF e < emin THEN emin - e ELSE 0))

\* ... rounded to a double
PackDouble(s, e, m, lost) == Pack(s, e, m, lost, EMin, EMax, 0)

\* int -> double, exact
ToDouble(i) ==
    LET OfBits(m) == Held(IF i < 0 THEN -1 ELSE 1, 55, m, LeadingZeros(m))
    IN  IF i = INT_MIN THEN [k |-> "fin", s |-> -1, e |-> 31, m |-> <<Limb \div 2, 0, 0, 0>>]
        ELSE OfBits(<<0, Abs(i) \div (Limb * Limb), (Abs(i) \div Limb) % Limb,
                      Abs(i) % Limb>>)

\* a finite nonzero double with its significand moved up to the top bit
Normalized(a) ==
    LET UpBy(lz) == [a EXCEPT !.e = a.e - lz, !.m = ShiftUp(a.m, lz)]
    IN  IF a.m[1] >= Limb \div 2 THEN a ELSE UpBy(LeadingZeros(a.m))

\* the digits of the sums cols of digit products, with their carries; i runs
\* from the last column down
RECURSIVE Propagate(_, _, _)
Propagate(cols, i, carry) ==
    IF i = 0 THEN <<carry>>
    ELSE Append(Propagate(cols, i - 1, (cols[i] + carry) \div Limb),
                (cols[i] + carry) % Limb)

\* the 112-bit product of two significands, as eight digits
Product(a, b) ==
    Propagate(<<a[1] * b[1],
                a[1] * b[2] + a[2] * b[1],
                a[1] * b[3] + a[2] * b[2] + a[3] * b[1],
                a[1] * b[4] + a[2] * b[3] + a[3] * b[2] + a[4] * b[1],
                a[2] * b[4] + a[3] * b[3] + a[4] * b[2],
                a[3] * b[4] + a[4] * b[3],
                a[4] * b[4]>>, 7, 0)

\* the product of two finite nonzero doubles with their top bits set: the
\* product p of the significands, moved up by a bit where its top bit is
\* not set, and rounded
MulFin(a, b) ==
    LET PackProduct(p, top) ==
            PackDouble(a.s * b.s,
                       IF top THEN a.e + b.e + 1 ELSE a.e + b.e,
                       IF top THEN <<p[1], p[2], p[3], p[4]>>
                       ELSE [ShiftUp(<<p[1], p[2], p[3], p[4]>>, 1)
                                EXCEPT ![4] = @ + p[5] \div (Limb \div 2)],
                       IF top THEN <<p[5], p[6], p[7], p[8]>> # NoBits
                       ELSE <<p[5] % (Limb \div 2), p[6], p[7], p[8]>> # NoBits)
        OfProduct(p) == PackProduct(p, p[1] >= Limb \div 2)
    IN  OfProduct(Product(a.m, b.m))

\* IEEE multiplication
Mul(a, b) ==
    IF IsNaN(a) \/ IsNaN(b) THEN NaN
    ELSE IF IsInf(a) \/ IsInf(b)
         THEN IF IsZero(a) \/ IsZero(b) THEN NaN ELSE Inf(a.s * b.s)
    ELSE IF IsZero(a) \/ IsZero(b) THEN SignedZero(a.s * b.s)
    ELSE MulFin(Normalized(a), Normalized(b))

\* d * q as Len(d) + 1 digits, for a digit q
RECURSIVE Times(_, _, _, _)
Times(d, q, i, carry) ==
    IF i = 0 THEN <<carry>>
    ELSE Append(Times(d, q, i - 1, (d[i] * q + carry) \div Limb),
                (d[i] * q + carry) % Limb)

\* whether a < b, for sequences of as many digits, from digit i on
RECURSIVE Below(_, _, _)
Below(a, b, i) ==
    IF i > Len(a) THEN FALSE
    ELSE IF a[i] # b[i] THEN a[i] < b[i]
    ELSE Below(a, b, i + 1)

\* a - b for a >= b, sequences of as many digits; i runs from the last digit
RECURSIVE Difference(_, _, _, _)
Difference(a, b, i, borrow) ==
    IF i = 0 THEN << >>
    ELSE Append(Difference(a, b, i - 1, IF a[i] - b[i] - borrow < 0 THEN 1 ELSE 0),
                (a[i] - b[i] - borrow) % Limb)

\* One digit of the long division: r5 is the remainder so far times Limb, t
\* is q * d; q is at most 2 too large
RECURSIVE Corrected(_, _, _, _)
Corrected(r5, d5, q, t) ==
    IF Below(r5, t, 1) THEN Corrected(r5, d5, q - 1, Difference(t, d5, 5, 0))
    ELSE [q |-> q, r |-> Tail(Difference(r5, t, 5, 0))]

\* floor(r * Limb / d) and the remainder, for r < d and d with its top bit
\* set; the estimate q from the leading digits is at most 2 too large
DivStep(r, d) ==
    LET Estimated(q) == Corrected(Append(r, 0), <<0>> \o d, q, Times(d, q, 4, 0))
    IN  Estimated(IF (r[1] * Limb + r[2]) \div d[1] >= Limb THEN Limb - 1
                  ELSE (r[1] * Limb + r[2]) \div d[1])

\* n more digits of the quotient
RECURSIVE Quotient(_, _, _, _)
Quotient(r, d, n, qs) ==
    LET After(step) == Quotient(step.r, d, n - 1, Append(qs, step.q))
    IN  IF n = 0 THEN [q |-> qs, r |-> r] ELSE After(DivStep(r, d))

\* the quotient of two finite nonzero doubles with their top bits set: x.q
\* is the five digits of floor(a.m * 2^56 / b.m), of 57 bits where a.m is
\* not below b.m, and is rounded
DivFin(a, b) ==
    LET PackQuotient(above, x) ==
            PackDouble(a.s * b.s,
                       IF above THEN a.e - b.e ELSE a.e - b.e - 1,
                       IF above
                       THEN <<Limb \div 2 + x.q[2] \div 2,
                              (x.q[2] % 2) * (Limb \div 2) + x.q[3] \div 2,
                              (x.q[3] % 2) * (Limb \div 2) + x.q[4] \div 2,
                              (x.q[4] % 2) * (Limb \div 2) + x.q[5] \div 2>>
                       ELSE Tail(x.q),
                       (above /\ x.q[5] % 2 = 1) \/ x.r # NoBits)
        Divided(above) ==
            PackQuotient(above,
                         Quotient(IF above THEN Minus(a.m, b.m) ELSE a.m, b.m, 4,
                                  IF above THEN <<1>> ELSE <<0>>))
    IN  Divided(CmpBits(a.m, b.m) >= 0)

\* IEEE division: x/0 is an infinity, 0/0 and inf/inf are nan, x/inf is 0
Div(a, b) ==
    IF IsNaN(a) \/ IsNaN(b) THEN NaN
    ELSE IF IsInf(a) THEN (IF IsInf(b) THEN NaN ELSE Inf(a.s * b.s))
    ELSE IF IsInf(b) THEN SignedZero(a.s * b.s)
    ELSE IF IsZero(b) THEN (IF IsZero(a) THEN NaN ELSE Inf(a.s * b.s))
    ELSE IF IsZero(a) THEN SignedZero(a.s * b.s)
    ELSE DivFin(Normalized(a), Normalized(b))

\* a + b for finite nonzero a and b, a not below b in magnitude; t is the
\* significand of b moved down to the exponent of a.  Of like signs the
\* significands add up to sum, five digits with the carry first.  Of unlike
\* signs they leave diff, which is one less than whole, with bits below it,
\* where the move lost bits of b; diff is moved up by n, its leading zeros
\* lz or as many as EMin allows.  The result is rounded; an exact zero is +0.
AddAligned(a, b, t) ==
    LET PackSum(same, sum, diff, n) ==
            IF ~same /\ diff = NoBits /\ ~t.lost THEN Zero
            ELSE PackDouble(a.s,
                            IF same THEN (IF sum[1] = 1 THEN a.e + 1 ELSE a.e)
                            ELSE a.e - n,
                            IF same
                            THEN (IF sum[1] = 1
                                  THEN <<Limb \div 2 + sum[2] \div 2,
                                         (sum[2] % 2) * (Limb \div 2) + sum[3] \div 2,
                                         (sum[3] % 2) * (Limb \div 2) + sum[4] \div 2,
                                         (sum[4] % 2) * (Limb \div 2) + sum[5] \div 2>>
                                  ELSE Tail(sum))
                            ELSE ShiftUp(diff, n),
                            t.lost \/ (same /\ sum[1] = 1 /\ sum[5] % 2 = 1))
        Cancelled(same, sum, diff, lz) ==
            PackSum(same, sum, diff, IF lz < a.e - EMin THEN lz ELSE a.e - EMin)
        Left(same, sum, diff) == Cancelled(same, sum, diff, LeadingZeros(diff))
        Combined(same, sum, whole) ==
            Left(same, sum, IF t.lost THEN Minus(whole, <<0, 0, 0, 1>>) ELSE whole)
    IN  Combined(a.s = b.s, Plus(a.m, t.m), Minus(a.m, t.m))

\* -1, 0 or 1 as |a| is below, equal to or above |b|, for finite a and b
CmpMag(a, b) ==
    IF a.e # b.e THEN (IF a.e < b.e THEN -1 ELSE 1) ELSE CmpBits(a.m, b.m)

\* the sum of two finite doubles: of the larger in magnitude and the other
AddFin(a, b) ==
    LET Ordered(hi, lo) == AddAligned(hi, lo, ShiftDown(lo.m, hi.e - lo.e))
        Larger(first) == Ordered(IF first THEN a ELSE b, IF first THEN b ELSE a)
    IN  IF IsZero(a) /\ IsZero(b)
        THEN SignedZero(IF a.s = -1 /\ b.s = -1 THEN -1 ELSE 1)
        ELSE IF IsZero(b) THEN a
        ELSE IF IsZero(a) THEN b
        ELSE Larger(CmpMag(a, b) >= 0)

\* IEEE addition: inf + (-inf) is nan, inf + x is inf
Add(a, b) ==
    IF IsNaN(a) \/ IsNaN(b) THEN NaN
    ELSE IF IsInf(a) THEN (IF IsInf(b) /\ a.s # b.s THEN NaN ELSE a)
    ELSE IF IsInf(b) THEN b
    ELSE AddFin(a, b)

Sub(a, b) == Add(a, Neg(b))

\* where a stands on the extended number line: infinities beyond the finite
Rank(a) == IF IsInf(a) THEN 2 * a.s ELSE Sign(a)

\* -1, 0 or 1 as a is below, equal to or above b; neither is a nan
Cmp(a, b) ==
    IF Rank(a) # Rank(b) THEN (IF Rank(a) < Rank(b) THEN -1 ELSE 1)
    ELSE IF IsInf(a) \/ Sign(a) = 0 THEN 0
    ELSE a.s * CmpMag(a, b)

\* the comparisons of doubles: every comparison with a nan is false
Less(a, b) == ~IsNaN(a) /\ ~IsNaN(b) /\ Cmp(a, b) < 0
Leq(a, b) == ~IsNaN(a) /\ ~IsNaN(b) /\ Cmp(a, b) <= 0
Eq(a, b) == ~IsNaN(a) /\ ~IsNaN(b) /\ Cmp(a, b) = 0

\* std::min(a, b) is (b < a) ? b : a, std::max(a, b) is (a < b) ? b : a
Min(a, b) == IF Less(b, a) THEN b ELSE a
Max(a, b) == IF Less(a, b) THEN b ELSE a

\* the double a literal with the decimal value n / d denotes: the nearest
Decimal(n, d) == Div(ToDouble(n), ToDouble(d))

\* (float)a: the nearest number with a significand of 24 bits and an exponent
\* from -126 to 127, held as the double of that value
ToFloat(a) ==
    LET Narrowed(n) == Pack(n.s, n.e, n.m, FALSE, -126, 127, 29)
    IN  IF ~IsFinite(a) \/ IsZero(a) THEN a ELSE Narrowed(Normalized(a))

(***************************************************************************)
(* (int) conversion of a double                                            *)
(***************************************************************************)
\* What the conversion of an out-of-range double to int yields.  It is
\* undefined behaviour: cvttsd2si yields INT_MIN, a saturating conversion
\* yields INT_MAX for a positive operand.
IntCastUB == {INT_MIN, INT_MAX}

\* the integer part of |a| for a finite a below 2^31 in magnitude
TruncMag(a) ==
    LET Integer(m) == m[2] * Limb * Limb + m[3] * Limb + m[4]
    IN  IF a.e < 0 THEN 0 ELSE Integer(ShiftDown(a.m, 55 - a.e).m)

\* whether a, cut to its integer part, is an int: below 2^31 in magnitude, or
\* above -2^31 - 1
InIntRange(a) ==
    /\ IsFinite(a)
    /\ \/ a.e < 31
       \/ a.e = 31 /\ a.s = -1 /\ ShiftDown(a.m, 24).m = <<0, 8, 0, 0>>

\* a faulty variant of the cast: the nearest integer, halves away from zero
RoundToInt(a, ub) ==
    IF ~InIntRange(a) THEN ub
    ELSE IF a.e = 31 THEN INT_MIN
    ELSE IF TruncMag(a) < INT_MAX \div 2
            /\ Leq(ToDouble(2 * TruncMag(a) + 1), Mul(ToDouble(2), Fabs(a)))
         THEN a.s * (TruncMag(a) + 1)
    ELSE a.s * TruncMag(a)

\* (int)a: truncation toward zero; out of the range of int, the outcome ub
ToInt(a, ub) ==
    IF ~InIntRange(a) THEN ub
    ELSE IF a.e = 31 THEN INT_MIN
    ELSE a.s * TruncMag(a)

(***************************************************************************)
(* SpiralCalculator                                                        *)
(***************************************************************************)
\* M_PI, 3.14159265358979323846 as a double: 0x1.921fb54442d18p+1
M_PI == Double(1, 1, <<12867, 15786, 2181, 10432>>)

\* double angleRad = spiralAngle * M_PI / 180.0
AngleRad(spiralAngle) == Div(Mul(ToDouble(spiralAngle), M_PI), ToDouble(180))

\* tan(angleRad) as the C library returns it, for the angles of 0, 1, 15,
\* 30, ... 180 degrees taken to radians by AngleRad: tan of the double next
\* to pi/2 is finite, that of the double next to pi/4 is below 1
Tan(angleRad) ==
    CASE angleRad = Zero ->
            Zero
      [] angleRad = Double(1, -6, <<9150, 9041, 2643, 10696>>) ->
            Double(1, -6, <<9151, 7882, 532, 8464>>)
      [] angleRad = Double(1, -2, <<8578, 10524, 1454, 6952>>) ->
            Double(1, -2, <<8780, 2607, 5081, 10928>>)
      [] angleRad = Double(1, -1, <<8578, 10524, 1454, 6952>>) ->
            Double(1, -1, <<9459, 5026, 12806, 6368>>)
      [] angleRad = Double(1, -1, <<12867, 15786, 2181, 10432>>) ->
            Double(1, -1, <<16383, 16383, 16383, 16376>>)
      [] angleRad = Double(1, 0, <<8578, 10524, 1454, 6952>>) ->
            Double(1, 0, <<14188, 15732, 2825, 9536>>)
      [] angleRad = Double(1, 0, <<10723, 4963, 1818, 504>>) ->
            Double(1, 1, <<15286, 7866, 1412, 12976>>)
      [] angleRad = Double(1, 0, <<12724, 16156, 14172, 5408>>) ->
            Double(1, 5, <<14666, 3771, 3731, 5504>>)
      [] angleRad = Double(1, 0, <<12867, 15786, 2181, 10432>>) ->
            Double(1, 53, <<14853, 2878, 1593, 11688>>)
      [] angleRad = Double(1, 0, <<15012, 10225, 2545, 3984>>) ->
            Double(-1, 1, <<15286, 7866, 1412, 12952>>)
      [] angleRad = Double(1, 1, <<8578, 10524, 1454, 6952>>) ->
            Double(-1, 0, <<14188, 15732, 2825, 9592>>)
      [] angleRad = Double(1, 1, <<9650, 15935, 9828, 3728>>) ->
            Double(-1, 0, <<8192, 0, 0, 8>>)
      [] angleRad = Double(1, 1, <<10723, 4963, 1818, 504>>) ->
            Double(-1, -1, <<9459, 5026, 12806, 6368>>)
      [] angleRad = Double(1, 1, <<11795, 10374, 10191, 13656>>) ->
            Double(-1, -2, <<8780, 2607, 5081, 10968>>)
      [] angleRad = Double(1, 1, <<12867, 15786, 2181, 10432>>) ->
            Double(-1, -53, <<9036, 4889, 8843, 8248>>)

Point2D(x, y) == [x |-> x, y |-> y]

DefaultPointsPerRevolution == 100

Circumference(drillDiameter) ==
    LET radius == Div(ToDouble(drillDiameter), ToDouble(2))
    IN Mul(Mul(ToDouble(2), M_PI), radius)

\* pitch = circumference / tan(angleRad), before the fallback
RawPitch(circumference, angleRad) == Div(circumference, Tan(angleRad))

\* totalRevolutions = totalLength / pitch, before the fallback
RawRevolutions(totalLength, pitch) == Div(ToDouble(totalLength), pitch)

\* totalRevolutions <= 0 || isnan(totalRevolutions) || isinf(totalRevolutions)
Degenerate(totalRevolutions) ==
    (~IsNaN(totalRevolutions) /\ Sign(totalRevolutions) <= 0)
        \/ IsNaN(totalRevolutions) \/ IsInf(totalRevolutions)

\* whether a call with these arguments takes the fallback
FallbackTaken(spiralAngle, drillDiameter, totalLength) ==
    Degenerate(RawRevolutions(totalLength,
                              RawPitch(Circumference(drillDiameter),
                                       AngleRad(spiralAngle))))

\* totalRevolutions after the if: raw is totalLength / pitch
TotalRevolutions(raw) == IF Degenerate(raw) THEN ToDouble(1) ELSE raw

\* a faulty variant of the fallback: the pitch falls back to 1.0 whatever the length
PitchFallbackOne(raw, pitch, totalLength) ==
    IF Degenerate(raw) THEN ToDouble(1) ELSE pitch

\* a faulty variant of the fallback: a non-positive length is taken as the pitch
PitchFallbackLength(raw, pitch, totalLength) ==
    IF Degenerate(raw) THEN ToDouble(totalLength) ELSE pitch

\* pitch after the if: raw is totalLength / pitch
Pitch(raw, pitch, totalLength) ==
    IF Degenerate(raw)
    THEN (IF totalLength > 0 THEN ToDouble(totalLength) ELSE ToDouble(1))
    ELSE pitch

\* totalRevolutions * pointsPerRevolution, the operand of the (int) cast
PointsProduct(totalRevolutions, pointsPerRevolution) ==
    Mul(totalRevolutions, ToDouble(pointsPerRevolution))

\* if (totalPoints < 10) totalPoints = 10;
AtLeast10(totalPoints) == IF totalPoints < 10 THEN 10 ELSE totalPoints

\* int totalPoints = (int)(...); if (totalPoints < 10) totalPoints = 10;
TotalPoints(product, ub) == AtLeast10(ToInt(product, ub))

\* the locals of CalculateSpiralGroove when its loop starts, each from those
\* before it
SpiralLocals(spiralAngle, drillDiameter, totalLength, pointsPerRevolution, ub) ==
    LET AtLoop(circumference, pitch, raw, totalRevolutions, product) ==
            [circumference |-> circumference,
             pitch |-> Pitch(raw, pitch, totalLength),
             totalRevolutions |-> totalRevolutions,
             product |-> product,
             cast |-> ToInt(product, ub),
             totalPoints |-> TotalPoints(product, ub)]
        AfterIf(circumference, pitch, raw, totalRevolutions) ==
            AtLoop(circumference, pitch, raw, totalRevolutions,
                   PointsProduct(totalRevolutions, pointsPerRevolution))
        AfterRevolutions(circumference, pitch, raw) ==
            AfterIf(circumference, pitch, raw, TotalRevolutions(raw))
        AfterPitch(circumference, pitch) ==
            AfterRevolutions(circumference, pitch, RawRevolutions(totalLength, pitch))
        AfterCircumference(circumference) ==
            AfterPitch(circumference, RawPitch(circumference, AngleRad(spiralAngle)))
    IN  AfterCircumference(Circumference(drillDiameter))

\* revolutions = x / pitch; y = revolutions * circumference
PointAt(x, pitch, circumference) == Point2D(x, Mul(Div(x, pitch), circumference))

\* a faulty variant of the loop body: t = i / (totalPoints + 1)
SampleShort(i, totalPoints, totalLength, pitch, circumference) ==
    PointAt(Mul(Div(ToDouble(i), ToDouble(totalPoints + 1)), ToDouble(totalLength)),
            pitch, circumference)

\* the body of the sampling loop: t = i / totalPoints; x = t * totalLength
Sample(i, totalPoints, totalLength, pitch, circumference) ==
    PointAt(Mul(Div(ToDouble(i), ToDouble(totalPoints)), ToDouble(totalLength)),
            pitch, circumference)

\* The sampling loop for (int i = 0; i <= totalPoints; i++).  With
\* totalPoints = INT_MAX its condition never fails and the call does not
\* return: a call returns [returns |-> TRUE, points |-> the vector].
SamplingLoop(totalPoints, totalLength, pitch, circumference) ==
    IF totalPoints = INT_MAX
    THEN [returns |-> FALSE, points |-> << >>]
    ELSE [returns |-> TRUE,
          points |-> [j \in 1..(totalPoints + 1) |->
                         Sample(j - 1, totalPoints, totalLength, pitch, circumference)]]

CalculateSpiralGroove(spiralAngle, drillDiameter, totalLength, bladeWidth, bladeHeight, pointsPerRevolution, ub) ==
    LET Loop(v) == SamplingLoop(v.totalPoints, totalLength, v.pitch, v.circumference)
    IN  Loop(SpiralLocals(spiralAngle, drillDiameter, totalLength,
                          pointsPerRevolution, ub))

\* a faulty variant of the offset: the right boundary left on the centre line
BoundaryPairOneSided(center, halfWidth) ==
    [first |-> Point2D(center.x, Add(center.y, halfWidth)),
     second |-> Point2D(center.x, center.y)]

\* leftBoundary = (center.x, center.y + halfWidth), rightBoundary likewise below
BoundaryPair(center, halfWidth) ==
    [first |-> Point2D(center.x, Add(center.y, halfWidth)),
     second |-> Point2D(center.x, Sub(center.y, halfWidth))]

BoundariesAt(centerPoints, halfWidth) ==
    [i \in 1..Len(centerPoints) |-> BoundaryPair(centerPoints[i], halfWidth)]

\* a faulty variant: only the empty centre line gives nothing
CalculateBoundariesFromOne(centerPoints, bladeWidth) ==
    IF Len(centerPoints) < 1 THEN << >>
    ELSE BoundariesAt(centerPoints, Div(ToDouble(bladeWidth), ToDouble(2)))

\* one (left, right) pair per centre point, offset by +-bladeWidth/2 in y;
\* nothing for fewer than two centre points
CalculateBoundaries(centerPoints, bladeWidth) ==
    IF Len(centerPoints) < 2 THEN << >>
    ELSE BoundariesAt(centerPoints, Div(ToDouble(bladeWidth), ToDouble(2)))

\* a faulty variant: the rectangle is not closed
RectangleOpen(length, radius) ==
    << Point2D(Zero, Neg(radius)), Point2D(length, Neg(radius)),
       Point2D(length, radius), Point2D(Zero, radius) >>

\* the closed rectangle from (0, -radius) round to (0, -radius)
Rectangle(length, radius) ==
    << Point2D(Zero, Neg(radius)), Point2D(length, Neg(radius)),
       Point2D(length, radius), Point2D(Zero, radius),
       Point2D(Zero, Neg(radius)) >>

CalculateToolOutline(drillDiameter, totalLength) ==
    Rectangle(ToDouble(totalLength), Div(ToDouble(drillDiameter), ToDouble(2)))

(***************************************************************************)
(* AutoCADDrawer                                                           *)
(***************************************************************************)
\* How one call of CreatePolylineWithAutoCAD can run: CoInitializeEx fails;
\* the application object, its IDispatch or the SAFEARRAY is not obtained;
\* a COM call throws; or the polyline data is produced.
PolylineOutcomes == {"coinit_failed", "no_app", "exception", "done"}

\* a CreatePolylineWithAutoCAD whose failure to reach the application counts
\* as a result although nothing was copied to the out-parameter
CreatePolylineKeepsNothing(input, output, outcome) ==
    IF input = << >> THEN [ret |-> TRUE, output |-> input]
    ELSE CASE outcome = "coinit_failed" -> [ret |-> FALSE, output |-> output]
           [] outcome = "no_app" -> [ret |-> TRUE, output |-> output]
           [] outcome = "exception" -> [ret |-> FALSE, output |-> input]
           [] outcome = "done" -> [ret |-> TRUE, output |-> input]

\* returns [ret |-> the bool returned, output |-> the out-parameter]
CreatePolylineWithAutoCAD(input, output, outcome) ==
    IF input = << >> THEN [ret |-> TRUE, output |-> input]
    ELSE CASE outcome = "coinit_failed" -> [ret |-> FALSE, output |-> output]
           [] outcome = "no_app" -> [ret |-> FALSE, output |-> output]
           [] outcome = "exception" -> [ret |-> FALSE, output |-> input]
           [] outcome = "done" -> [ret |-> TRUE, output |-> input]

\* std::vector<Point2D> optimized; if (Create...(points, optimized)) points = optimized;
Optimized(points, outcome) ==
    IF CreatePolylineWithAutoCAD(points, << >>, outcome).ret
    THEN CreatePolylineWithAutoCAD(points, << >>, outcome).output
    ELSE points

\* the first, and the second, points of the boundary pairs
LeftPoints(boundaries) == [i \in 1..Len(boundaries) |-> boundaries[i].first]
RightPoints(boundaries) == [i \in 1..Len(boundaries) |-> boundaries[i].second]

\* size_t minSize = std::min(leftPoints.size(), rightPoints.size())
MinSize(leftPoints, rightPoints) ==
    IF Len(rightPoints) < Len(leftPoints) THEN Len(rightPoints) ELSE Len(leftPoints)

\* a faulty variant: the last pair is not rebuilt
RecombineShort(leftPoints, rightPoints) ==
    [i \in 1..(MinSize(leftPoints, rightPoints) - 1) |->
        [first |-> leftPoints[i], second |-> rightPoints[i]]]

\* boundaries rebuilt from the left and right lists, cut to the shorter one
Recombine(leftPoints, rightPoints) ==
    [i \in 1..MinSize(leftPoints, rightPoints) |->
        [first |-> leftPoints[i], second |-> rightPoints[i]]]

\* available: IsAutoCADAvailable(); o[1..4]: the outcome of each of the four
\* CreatePolylineWithAutoCAD calls.  Returns the bool and the three in/out
\* parameters.
GenerateWithAutoCADAPI(centerPoints, boundaries, toolOutline, available, o) ==
    IF ~available
    THEN [ret |-> FALSE, centerPoints |-> centerPoints,
          boundaries |-> boundaries, toolOutline |-> toolOutline]
    ELSE [ret |-> TRUE,
          centerPoints |-> Optimized(centerPoints, o[1]),
          boundaries |-> Recombine(Optimized(LeftPoints(boundaries), o[2]),
                                   Optimized(RightPoints(boundaries), o[3])),
          toolOutline |-> Optimized(toolOutline, o[4])]

\* How one call of SmoothPolylineWithAutoCAD can run: CoInitializeEx fails;
\* some step up to the Coordinates property fails; a COM call throws before
\* the coordinates are copied; a push_back of the copy loop throws; a call
\* throws after the loop; or the coordinates are copied.
SmoothOutcomes ==
    {"coinit_failed", "no_app", "exception", "copy_exception", "late_exception",
     "done"}

\* the array of doubles x1, y1, x2, y2, ... of a point sequence
RECURSIVE Flat(_)
Flat(points) ==
    IF points = << >> THEN << >>
    ELSE << points[1].x, points[1].y >> \o Flat(Tail(points))

\* for (i = lBound; i <= uBound; i += 2) if (i + 1 <= uBound) push_back(...)
\* from index i on, with output as the loop has it at that point.  data is
\* the SAFEARRAY of doubles: SafeArrayGetLBound gives data.lBound,
\* SafeArrayGetUBound data.lBound + Len(data.elems) - 1, and pResultData
\* points at data.elems[1], so that pResultData[j] is data.elems[j + 1].
\* Below 0 and from Len(data.elems) on the read leaves the array, which is
\* undefined behaviour: the loop, which reads from index lBound upwards,
\* finds there the doubles of outside, in the order in which it reads them,
\* and faults where outside ends (the call does not return).  The loop also
\* ends where push_back has to allocate and throws std::bad_alloc: copied is
\* the number of points in output at that push_back, -1 if none throws.
RECURSIVE Pairs(_, _, _, _, _)
Pairs(data, outside, copied, i, output) ==
    LET UBound == data.lBound + Len(data.elems) - 1
        Within(j) == j >= 0 /\ j < Len(data.elems)
        Outside(j) == IF j < 0 THEN j - data.lBound + 1 ELSE j - Len(data.elems) + 1
        Readable(j) == Within(j) \/ Outside(j) <= Len(outside)
        ResultData(j) == IF Within(j) THEN data.elems[j + 1] ELSE outside[Outside(j)]
    IN  IF i > UBound THEN [ends |-> "done", output |-> output]
        ELSE IF i + 1 > UBound THEN Pairs(data, outside, copied, i + 2, output)
        ELSE IF ~(Readable(i) /\ Readable(i + 1))
             THEN [ends |-> "fault", output |-> output]
        ELSE IF Len(output) = copied THEN [ends |-> "thrown", output |-> output]
        ELSE Pairs(data, outside, copied, i + 2,
                   Append(output, Point2D(ResultData(i), ResultData(i + 1))))

\* returns [returns |-> whether the call comes back, ret |-> the bool
\* returned, output |-> the out-parameter]; data is the array the
\* Coordinates property of the polyline holds, outside what lies around it
\* in memory, copied where the copy loop is thrown out of.  Copied is
\* output.clear() and the loop, then SafeArrayUnaccessData, bSuccess = true
\* and the releases up to the return: what the call leaves for the way the
\* loop ended, and a call after the loop throwing (late) or none.
SmoothPolylineWithAutoCAD(input, output, outcome, data, outside, copied) ==
    LET Copied(loop, late) ==
            [returns |-> loop.ends # "fault",
             ret |-> loop.ends = "done" /\ ~late,
             output |-> loop.output]
    IN  IF Len(input) < 2 THEN [returns |-> TRUE, ret |-> TRUE, output |-> input]
        ELSE CASE outcome = "coinit_failed" ->
                    [returns |-> TRUE, ret |-> FALSE, output |-> output]
               [] outcome = "no_app" ->
                    [returns |-> TRUE, ret |-> TRUE, output |-> input]
               [] outcome = "exception" ->
                    [returns |-> TRUE, ret |-> FALSE, output |-> output]
               [] outcome = "copy_exception" ->
                    Copied(Pairs(data, outside, copied, data.lBound, << >>), FALSE)
               [] outcome = "late_exception" ->
                    Copied(Pairs(data, outside, -1, data.lBound, << >>), TRUE)
               [] outcome = "done" ->
                    Copied(Pairs(data, outside, -1, data.lBound, << >>), FALSE)

\* std::vector<Point2D> optimized;
\* if (Smooth...(points, optimized)) { points = optimized; return true; } return false;
\* returns whether the call comes back, the bool and the in/out parameter
OptimizePointsWithAutoCAD(points, outcome, data, outside, copied) ==
    LET Smoothed(r) ==
            IF r.returns /\ r.ret
            THEN [returns |-> TRUE, ret |-> TRUE, points |-> r.output]
            ELSE [returns |-> r.returns, ret |-> FALSE, points |-> points]
    IN  Smoothed(SmoothPolylineWithAutoCAD(points, << >>, outcome, data, outside,
                                           copied))

\* outputPoints.clear(); return false;
CreateHelixWithAutoCAD(spiralAngle, drillDiameter, totalLength, outputPoints) ==
    [ret |-> FALSE, outputPoints |-> << >>]

(***************************************************************************)
(* MainWindow                                                              *)
(***************************************************************************)
VARIABLES
    m_centerPoints,  \* std::vector<Point2D>
    m_boundaries,    \* std::vector<std::pair<Point2D, Point2D>>
    m_toolOutline,   \* std::vector<Point2D>
    m_scaleX, m_scaleY, m_offsetX, m_offsetY,
    clientRect,      \* what GetClientRect(m_hWnd) returns
    running,         \* FALSE once a handler has failed to return
    messages,        \* the MessageBox texts shown by the last WM_COMMAND
    trace,           \* the steps the last WM_COMMAND went through, in order
    last,            \* the last message the message loop dispatched, with the
                     \* edit controls it read
    fit,             \* the locals of the last view fit GenerateSpiral did
    accepted,        \* the parameters of the last submission that validated
    pc,              \* where the handler of WM_COMMAND stands
    drawn,           \* the calls the last step made on the Graphics object
    call             \* the direct call of a function of the program that
                     \* is in hand: waiting in a COM call, or returned

geometry == <<m_centerPoints, m_boundaries, m_toolOutline>>
transform == <<m_scaleX, m_scaleY, m_offsetX, m_offsetY>>
window ==
    <<geometry, transform, clientRect, running, messages, trace, last, fit,
      accepted, pc, drawn>>
vars == <<window, call>>

ValidationMessage == "invalid parameters"
NoDataMessage == "generate the groove data first"

\* the five edit controls, as _wtof reads them
Params(spiralAngle, drillDiameter, totalLength, bladeWidth, bladeHeight) ==
    [spiralAngle |-> spiralAngle, drillDiameter |-> drillDiameter,
     totalLength |-> totalLength, bladeWidth |-> bladeWidth,
     bladeHeight |-> bladeHeight]

\* a faulty variant of the validation: the test spiralAngle <= 0 left out
ParamsValidNoLowerAngle(p) ==
    ~(p.spiralAngle >= 90 \/
      p.drillDiameter <= 0 \/ p.totalLength <= 0 \/
      p.bladeWidth <= 0 \/ p.bladeHeight <= 0)

\* the negation of the test that guards the MessageBox in GenerateSpiral
ParamsValid(p) ==
    ~(p.spiralAngle <= 0 \/ p.spiralAngle >= 90 \/
      p.drillDiameter <= 0 \/ p.totalLength <= 0 \/
      p.bladeWidth <= 0 \/ p.bladeHeight <= 0)

\* one iteration of a bounding-box loop: the box so far, grown by the point p
Grow(box, p) ==
    [minX |-> Min(box.minX, p.x), maxX |-> Max(box.maxX, p.x),
     minY |-> Min(box.minY, p.y), maxY |-> Max(box.maxY, p.y)]

\* The loop over pts[lo..hi] in index order, starting from box: the first
\* half of the range, then the second half from the box the first left.
RECURSIVE BoxOver(_, _, _, _)
BoxOver(pts, lo, hi, box) ==
    LET \* the comparison has the first half finished before the second starts
        SecondHalf(mid, half) ==
            IF half = box THEN BoxOver(pts, mid + 1, hi, box)
            ELSE BoxOver(pts, mid + 1, hi, half)
        FirstHalf(mid) == SecondHalf(mid, BoxOver(pts, lo, mid, box))
    IN  IF lo > hi THEN box
        ELSE IF lo = hi THEN Grow(box, pts[lo])
        ELSE FirstHalf((lo + hi) \div 2)

\* one iteration of the loop over the boundary pairs
GrowPair(box, boundary) ==
    [minX |-> Min(box.minX, Min(boundary.first.x, boundary.second.x)),
     maxX |-> Max(box.maxX, Max(boundary.first.x, boundary.second.x)),
     minY |-> Min(box.minY, Min(boundary.first.y, boundary.second.y)),
     maxY |-> Max(box.maxY, Max(boundary.first.y, boundary.second.y))]

RECURSIVE BoxOverPairs(_, _, _, _)
BoxOverPairs(bs, lo, hi, box) ==
    LET SecondPairs(mid, half) ==
            IF half = box THEN BoxOverPairs(bs, mid + 1, hi, box)
            ELSE BoxOverPairs(bs, mid + 1, hi, half)
        FirstPairs(mid) == SecondPairs(mid, BoxOverPairs(bs, lo, mid, box))
    IN  IF lo > hi THEN box
        ELSE IF lo = hi THEN GrowPair(box, bs[lo])
        ELSE FirstPairs((lo + hi) \div 2)

\* minX, maxX, minY, maxY over centre line, boundaries and outline
BoundingBox(centerPoints, boundaries, toolOutline) ==
    LET b0 == [minX |-> centerPoints[1].x, maxX |-> centerPoints[1].x,
               minY |-> centerPoints[1].y, maxY |-> centerPoints[1].y]
        b1 == BoxOver(centerPoints, 1, Len(centerPoints), b0)
        b2 == BoxOverPairs(boundaries, 1, Len(boundaries), b1)
    IN BoxOver(toolOutline, 1, Len(toolOutline), b2)

\* a faulty variant of the last step: the free space not halved
FitOffsetsNotHalved(box, clientWidth, clientHeight, rangeX, rangeY, scale) ==
    [fitted |-> TRUE,
     locals |-> [box |-> box, clientWidth |-> clientWidth, clientHeight |-> clientHeight],
     scaleX |-> scale, scaleY |-> scale,
     offsetX |-> Sub(Add(ToDouble(250),
                         Sub(ToDouble(clientWidth), Mul(rangeX, scale))),
                     Mul(box.minX, scale)),
     offsetY |-> Sub(Add(ToDouble(10),
                         Sub(ToDouble(clientHeight), Mul(rangeY, scale))),
                     Mul(box.minY, scale))]

\* The last step of the view fit: the members for the scale just taken.
\* m_offsetX = 250 + (clientWidth - rangeX * m_scaleX) / 2 - minX * m_scaleX,
\* m_offsetY = 10 + (clientHeight - rangeY * m_scaleY) / 2 - minY * m_scaleY
FitOffsets(box, clientWidth, clientHeight, rangeX, rangeY, scale) ==
    [fitted |-> TRUE,
     locals |-> [box |-> box, clientWidth |-> clientWidth, clientHeight |-> clientHeight],
     scaleX |-> scale, scaleY |-> scale,
     offsetX |-> Sub(Add(ToDouble(250),
                         Div(Sub(ToDouble(clientWidth), Mul(rangeX, scale)),
                             ToDouble(2))),
                     Mul(box.minX, scale)),
     offsetY |-> Sub(Add(ToDouble(10),
                         Div(Sub(ToDouble(clientHeight), Mul(rangeY, scale)),
                             ToDouble(2))),
                     Mul(box.minY, scale))]

\* a faulty variant of the guard: a box higher than wide is not fitted
FitRangesWide(box, clientWidth, clientHeight, rangeX, rangeY, scaleX, scaleY, offsetX, offsetY) ==
    IF Sign(rangeY) > 0 /\ Less(rangeY, rangeX)
    THEN FitOffsets(box, clientWidth, clientHeight, rangeX, rangeY,
                    Min(Mul(Div(ToDouble(clientWidth), rangeX), Decimal(85, 100)),
                        Mul(Div(ToDouble(clientHeight), rangeY), Decimal(85, 100))))
    ELSE [fitted |-> FALSE,
          locals |-> [box |-> box, clientWidth |-> clientWidth,
                      clientHeight |-> clientHeight],
          scaleX |-> scaleX, scaleY |-> scaleY,
          offsetX |-> offsetX, offsetY |-> offsetY]

\* a faulty variant of the guard: only the extent along y is looked at
FitRangesOneAxis(box, clientWidth, clientHeight, rangeX, rangeY, scaleX, scaleY, offsetX, offsetY) ==
    IF Sign(rangeY) > 0
    THEN FitOffsets(box, clientWidth, clientHeight, rangeX, rangeY,
                    Min(Mul(Div(ToDouble(clientWidth), rangeX), Decimal(85, 100)),
                        Mul(Div(ToDouble(clientHeight), rangeY), Decimal(85, 100))))
    ELSE [fitted |-> FALSE,
          locals |-> [box |-> box, clientWidth |-> clientWidth,
                      clientHeight |-> clientHeight],
          scaleX |-> scaleX, scaleY |-> scaleY,
          offsetX |-> offsetX, offsetY |-> offsetY]

\* if (rangeX > 0 && rangeY > 0): m_scaleX = m_scaleY =
\* std::min(clientWidth / rangeX * 0.85, clientHeight / rangeY * 0.85);
\* otherwise the members keep the values passed in
FitRanges(box, clientWidth, clientHeight, rangeX, rangeY, scaleX, scaleY, offsetX, offsetY) ==
    IF Sign(rangeX) > 0 /\ Sign(rangeY) > 0
    THEN FitOffsets(box, clientWidth, clientHeight, rangeX, rangeY,
                    Min(Mul(Div(ToDouble(clientWidth), rangeX), Decimal(85, 100)),
                        Mul(Div(ToDouble(clientHeight), rangeY), Decimal(85, 100))))
    ELSE [fitted |-> FALSE,
          locals |-> [box |-> box, clientWidth |-> clientWidth,
                      clientHeight |-> clientHeight],
          scaleX |-> scaleX, scaleY |-> scaleY,
          offsetX |-> offsetX, offsetY |-> offsetY]

\* The scale and offset computation of GenerateSpiral over the box, for the
\* client rectangle rect.  fitted tells whether rangeX > 0 && rangeY > 0 let
\* the assignments happen.
FitView(box, rect, scaleX, scaleY, offsetX, offsetY) ==
    FitRanges(box, rect.right - rect.left - 250, rect.bottom - rect.top - 20,
              Sub(box.maxX, box.minX), Sub(box.maxY, box.minY),
              scaleX, scaleY, offsetX, offsetY)

\* the members and the model's records as they stand before a handler runs
Members ==
    [returns |-> TRUE, centerPoints |-> m_centerPoints,
     boundaries |-> m_boundaries, toolOutline |-> m_toolOutline,
     scaleX |-> m_scaleX, scaleY |-> m_scaleY,
     offsetX |-> m_offsetX, offsetY |-> m_offsetY,
     messages |-> << >>, trace |-> << "validate" >>,
     fit |-> fit, accepted |-> accepted]

\* the members and the model's records as they stand while a handler runs
Current ==
    [returns |-> TRUE, centerPoints |-> m_centerPoints,
     boundaries |-> m_boundaries, toolOutline |-> m_toolOutline,
     scaleX |-> m_scaleX, scaleY |-> m_scaleY,
     offsetX |-> m_offsetX, offsetY |-> m_offsetY,
     messages |-> messages, trace |-> trace,
     fit |-> fit, accepted |-> accepted]

\* GenerateSpiral from UpdateInfo on: the members after the fit f
Fitted(p, centerPoints, boundaries, toolOutline, f) ==
    [returns |-> TRUE, centerPoints |-> centerPoints,
     boundaries |-> boundaries, toolOutline |-> toolOutline,
     scaleX |-> f.scaleX, scaleY |-> f.scaleY,
     offsetX |-> f.offsetX, offsetY |-> f.offsetY,
     messages |-> << >>,
     trace |-> << "validate", "calculate",
                  IF f.fitted THEN "fit" ELSE "fit_skipped",
                  "update_info", "invalidate" >>,
     fit |-> [fitted |-> f.fitted, locals |-> f.locals],
     accepted |-> << p >>]

\* a faulty variant: an outline already stored is kept and fitted
StoredKeepsOutline(p, centerPoints, boundaries, toolOutline) ==
    Fitted(p, centerPoints, boundaries,
           IF m_toolOutline = << >> THEN toolOutline ELSE m_toolOutline,
           IF centerPoints = << >>
           THEN [fitted |-> FALSE, locals |-> fit.locals,
                 scaleX |-> m_scaleX, scaleY |-> m_scaleY,
                 offsetX |-> m_offsetX, offsetY |-> m_offsetY]
           ELSE FitView(BoundingBox(centerPoints, boundaries,
                            IF m_toolOutline = << >> THEN toolOutline
                            ELSE m_toolOutline),
                        clientRect, m_scaleX, m_scaleY, m_offsetX, m_offsetY))

\* GenerateSpiral from if (!m_centerPoints.empty()) on
Stored(p, centerPoints, boundaries, toolOutline) ==
    Fitted(p, centerPoints, boundaries, toolOutline,
           IF centerPoints = << >>
           THEN [fitted |-> FALSE, locals |-> fit.locals,
                 scaleX |-> m_scaleX, scaleY |-> m_scaleY,
                 offsetX |-> m_offsetX, offsetY |-> m_offsetY]
           ELSE FitView(BoundingBox(centerPoints, boundaries, toolOutline),
                        clientRect, m_scaleX, m_scaleY, m_offsetX, m_offsetY))

\* a faulty variant: the boundaries are set off by the blade height
CalculatedByHeight(p, g) ==
    IF ~g.returns
    THEN [Members EXCEPT !.returns = FALSE, !.trace = << "validate", "calculate" >>]
    ELSE Stored(p, g.points, CalculateBoundaries(g.points, p.bladeHeight),
                CalculateToolOutline(p.drillDiameter, p.totalLength))

\* GenerateSpiral from the return of CalculateSpiralGroove on; g is that call
Calculated(p, g) ==
    IF ~g.returns
    THEN [Members EXCEPT !.returns = FALSE, !.trace = << "validate", "calculate" >>]
    ELSE Stored(p, g.points, CalculateBoundaries(g.points, p.bladeWidth),
                CalculateToolOutline(p.drillDiameter, p.totalLength))

\* GenerateSpiral for the edit controls p: the members it leaves, the
\* MessageBox texts it shows and the steps it takes.  returns is FALSE when
\* the call of CalculateSpiralGroove does not come back.
GenerateSpiral(p, ub) ==
    IF ~ParamsValid(p)
    THEN [Members EXCEPT !.messages = << ValidationMessage >>]
    ELSE Calculated(p, CalculateSpiralGroove(p.spiralAngle, p.drillDiameter,
                           p.totalLength, p.bladeWidth, p.bladeHeight,
                           DefaultPointsPerRevolution, ub))

\* DrawToAutoCAD once the three vectors have been through the refinement r
Redrawn(s, r) ==
    [s EXCEPT !.centerPoints = r.centerPoints,
              !.boundaries = r.boundaries,
              !.toolOutline = r.toolOutline,
              !.trace = s.trace \o << "refine", "invalidate", "update_window" >>]

\* the MessageBox of DrawToAutoCAD
NoData(s) ==
    [s EXCEPT !.messages = Append(s.messages, NoDataMessage),
              !.trace = Append(s.trace, "no_data")]

\* DrawToAutoCAD on the members s that GenerateSpiral left, up to the return
\* of its MessageBox or to its call of UpdateWindow
DrawToAutoCAD(s, available, o) ==
    IF s.centerPoints = << >> THEN NoData(s)
    ELSE Redrawn(s, GenerateWithAutoCADAPI(s.centerPoints, s.boundaries,
                                           s.toolOutline, available, o))

\* DrawToAutoCAD on the members s up to the point where it first waits: in
\* its MessageBox, or in the COM calls of GenerateWithAutoCADAPI
Entered(s) ==
    IF s.centerPoints = << >> THEN [members |-> NoData(s), pc |-> "no_data_box"]
    ELSE [members |-> s, pc |-> "refine"]

PointF(X, Y) == [X |-> X, Y |-> Y]

\* points[i].X = (float)(pt.x * m_scaleX + m_offsetX), and the same for Y
Plot(pt, scaleX, scaleY, offsetX, offsetY) ==
    PointF(ToFloat(Add(Mul(pt.x, scaleX), offsetX)),
           ToFloat(Add(Mul(pt.y, scaleY), offsetY)))

\* Pen pen(Color(r, g, b), width); graphics.DrawLines(&pen, points, count)
\* for the array filled from pts
DrawLines(color, width, pts, scaleX, scaleY, offsetX, offsetY) ==
    [op |-> "DrawLines", color |-> color, width |-> width,
     points |-> [i \in 1..Len(pts) |-> Plot(pts[i], scaleX, scaleY, offsetX, offsetY)],
     count |-> Len(pts)]

\* the block of the tool outline
DrawOutline(toolOutline, scaleX, scaleY, offsetX, offsetY) ==
    IF Len(toolOutline) >= 2
    THEN << DrawLines(<<200, 200, 200>>, 1, toolOutline,
                      scaleX, scaleY, offsetX, offsetY) >>
    ELSE << >>

\* the block of the boundaries: the left one in red, then the right one in blue
DrawBoundaries(boundaries, scaleX, scaleY, offsetX, offsetY) ==
    IF Len(boundaries) >= 2
    THEN << DrawLines(<<255, 0, 0>>, 2, LeftPoints(boundaries),
                      scaleX, scaleY, offsetX, offsetY),
            DrawLines(<<0, 0, 255>>, 2, RightPoints(boundaries),
                      scaleX, scaleY, offsetX, offsetY) >>
    ELSE << >>

\* the block of the centre line
DrawCenter(centerPoints, scaleX, scaleY, offsetX, offsetY) ==
    IF Len(centerPoints) >= 2
    THEN << DrawLines(<<0, 255, 0>>, 1, centerPoints,
                      scaleX, scaleY, offsetX, offsetY) >>
    ELSE << >>

\* graphics.SetSmoothingMode(SmoothingModeAntiAlias)
SetSmoothingMode == [op |-> "SetSmoothingMode", mode |-> "SmoothingModeAntiAlias"]

\* graphics.Clear(Color(255, 255, 255))
Clear == [op |-> "Clear", color |-> <<255, 255, 255>>]

\* a faulty variant: the centre line is drawn first
DrawGraphicsCenterFirst(centerPoints, boundaries, toolOutline, scaleX, scaleY, offsetX, offsetY) ==
    IF centerPoints = << >> THEN << SetSmoothingMode, Clear >>
    ELSE << SetSmoothingMode, Clear >>
         \o DrawCenter(centerPoints, scaleX, scaleY, offsetX, offsetY)
         \o DrawOutline(toolOutline, scaleX, scaleY, offsetX, offsetY)
         \o DrawBoundaries(boundaries, scaleX, scaleY, offsetX, offsetY)

\* DrawGraphics: the calls made on the Graphics object, in order
DrawGraphics(centerPoints, boundaries, toolOutline, scaleX, scaleY, offsetX, offsetY) ==
    IF centerPoints = << >> THEN << SetSmoothingMode, Clear >>
    ELSE << SetSmoothingMode, Clear >>
         \o DrawOutline(toolOutline, scaleX, scaleY, offsetX, offsetY)
         \o DrawBoundaries(boundaries, scaleX, scaleY, offsetX, offsetY)
         \o DrawCenter(centerPoints, scaleX, scaleY, offsetX, offsetY)

(***************************************************************************)
(* The input sets of the model                                             *)
(***************************************************************************)
\* no centre line of more than MaxPoints + 1 points is enumerated
MaxPoints == 300

Enumerable(spiralAngle, drillDiameter, totalLength, pointsPerRevolution) ==
    LET Short(v) == InIntRange(v.product) => v.totalPoints <= MaxPoints
    IN  Short(SpiralLocals(spiralAngle, drillDiameter, totalLength,
                           pointsPerRevolution, 0))

\* The five edit controls as CreateControls fills them
DefaultParams == Params(30, 10, 50, 2, 1)

\* the edit controls once the length of a short tool has been typed
ShortTool == [DefaultParams EXCEPT !.totalLength = 5]

\* what the user can have typed into the edit controls (ES_NUMBER: digits)
UiValues ==
    [spiralAngle : {0, 30, 45, 90}, drillDiameter : {0, 8, 10},
     totalLength : {0, 5}, bladeWidth : {0, 2},
     bladeHeight : {0, 1, 2}]

\* a submission differs from the short tool in at most MaxEdits controls
MaxEdits == 1

Edited(p) == {f \in DOMAIN p : p[f] # ShortTool[f]}

Submissions ==
    {p \in UiValues :
        /\ Cardinality(Edited(p)) <= MaxEdits
        /\ Enumerable(p.spiralAngle, p.drillDiameter, p.totalLength,
                      DefaultPointsPerRevolution)}

\* the outcomes of the (int) cast of a call: ub is read only when the operand
\* is out of range
CastOutcomesOf(spiralAngle, drillDiameter, totalLength, pointsPerRevolution) ==
    IF InIntRange(SpiralLocals(spiralAngle, drillDiameter, totalLength,
                               pointsPerRevolution, 0).product)
    THEN {INT_MIN} ELSE IntCastUB

\* the same for a submission of the window
CastOutcomes(p) ==
    CastOutcomesOf(p.spiralAngle, p.drillDiameter, p.totalLength,
                   DefaultPointsPerRevolution)

\* the client areas the resizable window takes
ClientRects ==
    {[left |-> 0, top |-> 0, right |-> c[1], bottom |-> c[2]] :
        c \in {<<200, 761>>, <<1184, 761>>}}

\* the four calls of one refinement pass, each running in any way
OutcomeVectors == [1..4 -> PolylineOutcomes]

NoFit ==
    [fitted |-> FALSE,
     locals |-> [box |-> [minX |-> Zero, maxX |-> Zero, minY |-> Zero, maxY |-> Zero],
                 clientWidth |-> 0, clientHeight |-> 0]]

\* a window message that reads no edit control
NoParams == << >>

NoCall == [fn |-> "none", args |-> << >>, locals |-> << >>, result |-> << >>]

Init ==
    /\ m_centerPoints = << >>
    /\ m_boundaries = << >>
    /\ m_toolOutline = << >>
    /\ m_scaleX = ToDouble(1)
    /\ m_scaleY = ToDouble(1)
    /\ m_offsetX = Zero
    /\ m_offsetY = Zero
    /\ clientRect = [left |-> 0, top |-> 0, right |-> 1184, bottom |-> 761]
    /\ running = TRUE
    /\ messages = << >>
    /\ trace = << >>
    /\ last = [event |-> "create", params |-> NoParams]
    /\ fit = NoFit
    /\ accepted = << >>
    /\ pc = "idle"
    /\ drawn = << >>
    /\ call = NoCall

\* the members and the model's records take the values of the record s
Store(s) ==
    /\ m_centerPoints' = s.centerPoints
    /\ m_boundaries' = s.boundaries
    /\ m_toolOutline' = s.toolOutline
    /\ m_scaleX' = s.scaleX
    /\ m_scaleY' = s.scaleY
    /\ m_offsetX' = s.offsetX
    /\ m_offsetY' = s.offsetY
    /\ running' = s.returns
    /\ messages' = s.messages
    /\ trace' = s.trace
    /\ fit' = s.fit
    /\ accepted' = s.accepted

\* OnCommand from the return of GenerateSpiral, which left g, to the point
\* where the handler first waits: in the MessageBox of the validation, in the
\* sampling loop that does not end, or where DrawToAutoCAD waits
Submitted(g) ==
    IF g.messages # << >> THEN [members |-> g, pc |-> "validation_box"]
    ELSE IF ~g.returns THEN [members |-> g, pc |-> "calculate"]
    ELSE Entered(g)

\* WM_COMMAND of the generate button: GenerateSpiral(); DrawToAutoCAD();
\* p is what the edit controls hold, ub what an out-of-range (int) cast yields.
\* The handler runs to the point where it first waits.  The window is
\* disabled while a MessageBox it owns is open, so the button is not pressed
\* again before the handler has returned.
OnCommand(p, ub) ==
    /\ running
    /\ pc = "idle"
    /\ \E h \in {Submitted(GenerateSpiral(p, ub))} :
          /\ Store(h.members)
          /\ pc' = h.pc
    /\ last' = [event |-> "command", params |-> p]
    /\ drawn' = << >>
    /\ UNCHANGED <<clientRect, call>>

\* The MessageBox of the validation returns: GenerateSpiral returns, and
\* DrawToAutoCAD runs to the point where it waits.
CloseValidationBox ==
    /\ running
    /\ pc = "validation_box"
    /\ Store(Entered(Current).members)
    /\ pc' = Entered(Current).pc
    /\ drawn' = << >>
    /\ UNCHANGED <<clientRect, last, call>>

\* The MessageBox of DrawToAutoCAD returns, and with it the handler.
CloseNoDataBox ==
    /\ running
    /\ pc = "no_data_box"
    /\ pc' = "idle"
    /\ drawn' = << >>
    /\ UNCHANGED <<geometry, transform, clientRect, running, messages, trace,
                   last, fit, accepted, call>>

\* GenerateWithAutoCADAPI returns: whether AutoCAD answered, and how each
\* CreatePolylineWithAutoCAD call ran, is settled while it runs.
\* DrawToAutoCAD stores what came back and calls InvalidateRect and
\* UpdateWindow, which sends WM_PAINT before it returns.
Refined(available, o) ==
    /\ running
    /\ pc = "refine"
    /\ Store(DrawToAutoCAD(Current, available, o))
    /\ pc' = "update_window"
    /\ drawn' = << >>
    /\ UNCHANGED <<clientRect, last>>

Refine(available, o) == Refined(available, o) /\ UNCHANGED call

\* WM_PAINT: BeginPaint, DrawGraphics, EndPaint.  It is dispatched by the
\* message loop, or from within the handler of WM_COMMAND: by the modal
\* loop of a MessageBox, while a COM call waits, or by UpdateWindow, after
\* which DrawToAutoCAD and the handler return.
OnPaint ==
    /\ running
    /\ pc # "calculate"
    /\ drawn' = DrawGraphics(m_centerPoints, m_boundaries, m_toolOutline,
                             m_scaleX, m_scaleY, m_offsetX, m_offsetY)
    /\ pc' = (IF pc = "update_window" THEN "idle" ELSE pc)
    /\ trace' = (IF pc = "update_window" THEN Append(trace, "paint") ELSE trace)
    /\ last' = (IF pc = "idle" THEN [event |-> "paint", params |-> NoParams]
                ELSE last)
    /\ UNCHANGED <<geometry, transform, clientRect, running, messages, fit,
                   accepted, call>>

\* WM_SIZE goes to DefWindowProc: only the client rectangle changes.  It is
\* handled by the message loop, by the modal loop of a MessageBox or while
\* a COM call waits, not within UpdateWindow.
Resize(rect) ==
    /\ running
    /\ pc \in {"idle", "validation_box", "no_data_box", "refine", "com_wait"}
    /\ rect # clientRect
    /\ clientRect' = rect
    /\ last' = (IF pc = "idle" THEN [event |-> "size", params |-> NoParams]
                ELSE last)
    /\ drawn' = << >>
    /\ UNCHANGED <<geometry, transform, running, messages, trace, fit, accepted,
                   pc, call>>

Submit ==
    /\ pc = "idle"
    /\ \E p \in Submissions : \E ub \in CastOutcomes(p) : OnCommand(p, ub)

Next ==
    \/ Submit
    \/ CloseValidationBox
    \/ CloseNoDataBox
    \/ \E available \in BOOLEAN, o \in OutcomeVectors : Refine(available, o)
    \/ OnPaint
    \/ \E rect \in ClientRects : Resize(rect)

Spec == Init /\ [][Next]_vars

(***************************************************************************)
(* The calculator called directly: SpiralCalculator's functions are public *)
(* and static, and take any doubles and any int.                           *)
(***************************************************************************)
CalcAngles == {0, 30, 45, 60, 90, 120}
CalcDiameters == {-10, 0, 1, 10}
CalcLengths == {-50, 0, 5, 50, 100000000}
CalcRates == {-5, 0, 1, 100}

CalcInputs ==
    {a \in [spiralAngle : CalcAngles, drillDiameter : CalcDiameters,
            totalLength : CalcLengths, pointsPerRevolution : CalcRates] :
        Enumerable(a.spiralAngle, a.drillDiameter, a.totalLength,
                   a.pointsPerRevolution)}

\* the centre lines handed to CalculateBoundaries: every sequence of at most
\* MaxCenterLen of these points, in any order
MaxCenterLen == 3

\* 1e16, 0x1.1c37937e08p+53: doubles of this size are 2 apart
FarOut == Double(1, 53, <<9094, 15515, 15376, 0>>)

CenterValues ==
    {Point2D(Zero, Zero), Point2D(ToDouble(1), ToDouble(2)),
     Point2D(Decimal(5, 2), ToDouble(-3)), Point2D(Decimal(7, 10), FarOut)}

CenterLines == UNION {[1..n -> CenterValues] : n \in 0..MaxCenterLen}

BladeWidths == {-2, 0, 2, 3}

CallSpiralGroove(a, ub) ==
    /\ call = NoCall
    /\ call' = [fn |-> "CalculateSpiralGroove", args |-> a,
                locals |-> SpiralLocals(a.spiralAngle, a.drillDiameter,
                                        a.totalLength, a.pointsPerRevolution, ub),
                result |-> CalculateSpiralGroove(a.spiralAngle, a.drillDiameter,
                               a.totalLength, DefaultParams.bladeWidth,
                               DefaultParams.bladeHeight,
                               a.pointsPerRevolution, ub)]
    /\ UNCHANGED window

CallBoundaries(centerPoints, bladeWidth) ==
    /\ call = NoCall
    /\ call' = [fn |-> "CalculateBoundaries",
                args |-> [centerPoints |-> centerPoints, bladeWidth |-> bladeWidth],
                locals |-> << >>,
                result |-> CalculateBoundaries(centerPoints, bladeWidth)]
    /\ UNCHANGED window

CallToolOutline(drillDiameter, totalLength) ==
    /\ call = NoCall
    /\ call' = [fn |-> "CalculateToolOutline",
                args |-> [drillDiameter |-> drillDiameter, totalLength |-> totalLength],
                locals |-> << >>,
                result |-> CalculateToolOutline(drillDiameter, totalLength)]
    /\ UNCHANGED window

\* the call has returned, and the caller drops the result
Return ==
    /\ call # NoCall
    /\ pc = "idle"
    /\ call' = NoCall
    /\ UNCHANGED window

CalcNext ==
    \/ \E a \in CalcInputs :
         \E ub \in CastOutcomesOf(a.spiralAngle, a.drillDiameter, a.totalLength,
                                  a.pointsPerRevolution) : CallSpiralGroove(a, ub)
    \/ \E centerPoints \in CenterLines, bladeWidth \in BladeWidths :
         CallBoundaries(centerPoints, bladeWidth)
    \/ \E drillDiameter \in CalcDiameters, totalLength \in CalcLengths :
         CallToolOutline(drillDiameter, totalLength)
    \/ Return

CalcSpec == Init /\ [][CalcNext]_vars

(***************************************************************************)
(* The refinement pass: the public functions of AutoCADDrawer called       *)
(* directly with any point sequences, and DrawToAutoCAD as the handler of  *)
(* WM_COMMAND calls it in the window.                                      *)
(***************************************************************************)
\* what the Coordinates property can hold for a polyline made from points:
\* the same points, an array with an odd element left over, or nothing, in
\* a SAFEARRAY whose lower bound is 0 or another
CoordinateArrays(points) ==
    {[lBound |-> lBound, elems |-> elems] :
        lBound \in {-1, 0, 1, 2},
        elems \in {Flat(points), Append(Flat(points), Zero), << >>}}

\* How a call of OptimizePointsWithAutoCAD on points can run.  Where the
\* Coordinates property is not read, no array is looked at.  Where it is,
\* the loop leaves the array when its lower bound is not 0, and finds there
\* no double it can read, one or two; and push_back can throw with copied
\* points in the vector, which was empty, at any point the loop has still
\* to copy.
SmoothRuns(points) ==
    {[outcome |-> outcome, data |-> [lBound |-> 0, elems |-> << >>],
      outside |-> << >>, copied |-> -1] :
        outcome \in {"coinit_failed", "no_app", "exception"}}
    \cup
    {r \in [outcome : {"copy_exception", "late_exception", "done"},
            data : CoordinateArrays(points),
            outside : {<< >>, << FarOut >>, << Zero, FarOut >>},
            copied : -1..(Len(points) - 1)] :
        /\ r.data.lBound = 0 => r.outside = << >>
        /\ IF r.outcome = "copy_exception"
           THEN r.copied >= 0 /\ 2 * r.copied + 2 <= Len(r.data.elems)
           ELSE r.copied = -1}

\* How the polyline calls of one refinement pass are recorded: the way
\* each of the four ran, or, when AutoCAD is not registered and
\* GenerateWithAutoCADAPI calls none, nothing
PolylineRuns(available) == IF available THEN OutcomeVectors ELSE {<< >>}

\* the centre lines handed to GenerateWithAutoCADAPI
MaxRefinedLen == 2

RefinedLines ==
    {c \in CenterLines :
        /\ Len(c) <= MaxRefinedLen
        /\ \A i \in 1..Len(c) : c[i].y \in {ToDouble(2), FarOut}}

HelixInputs ==
    [spiralAngle : {0, 30}, drillDiameter : {0, 10}, totalLength : {50}]

\* the edit controls of the submissions whose refinement is observed
DrawerSubmissions ==
    {Params(30, 10, 5, 2, 1), Params(45, 10, 5, 2, 1), Params(0, 10, 5, 2, 1)}

\* a function of AutoCADDrawer that has been called with args and waits in
\* an outgoing COM call (GetActiveObject, CoCreateInstance, QueryInterface,
\* Invoke): the window thread handles WM_PAINT and WM_SIZE meanwhile
InCOM(fn, args) ==
    [fn |-> "COM", args |-> [fn |-> fn, args |-> args], locals |-> << >>,
     result |-> << >>]

\* fn is called with args and runs to its first outgoing COM call
EnterCOM(fn, args) ==
    /\ call = NoCall
    /\ call' = InCOM(fn, args)
    /\ pc' = "com_wait"
    /\ UNCHANGED <<geometry, transform, clientRect, running, messages, trace,
                   last, fit, accepted, drawn>>

\* OptimizePointsWithAutoCAD returns.  With fewer than two points, or when
\* CoInitializeEx fails, it has made no COM call and the window has handled
\* nothing since the call; otherwise it returns from its last COM call.
CallOptimizePoints(points, r) ==
    /\ call = (IF Len(points) >= 2 /\ r.outcome # "coinit_failed"
               THEN InCOM("OptimizePointsWithAutoCAD", [points |-> points])
               ELSE NoCall)
    /\ call' = [fn |-> "OptimizePointsWithAutoCAD",
                args |-> [points |-> points, outcome |-> r.outcome,
                          data |-> r.data, outside |-> r.outside,
                          copied |-> r.copied],
                locals |-> << >>,
                result |-> OptimizePointsWithAutoCAD(points, r.outcome, r.data,
                                                     r.outside, r.copied)]
    /\ pc' = "idle"
    /\ drawn' = << >>
    /\ UNCHANGED <<geometry, transform, clientRect, running, messages, trace,
                   last, fit, accepted>>

\* CreateHelixWithAutoCAD makes no COM call
CallCreateHelix(a, outputPoints) ==
    /\ call = NoCall
    /\ call' = [fn |-> "CreateHelixWithAutoCAD",
                args |-> [spiralAngle |-> a.spiralAngle,
                          drillDiameter |-> a.drillDiameter,
                          totalLength |-> a.totalLength,
                          outputPoints |-> outputPoints],
                locals |-> << >>,
                result |-> CreateHelixWithAutoCAD(a.spiralAngle, a.drillDiameter,
                                                  a.totalLength, outputPoints)]
    /\ UNCHANGED window

\* GenerateWithAutoCADAPI returns.  It has made a COM call when AutoCAD is
\* registered and one of its four CreatePolylineWithAutoCAD calls had points
\* to work on and got past CoInitializeEx; otherwise the window has handled
\* nothing since the call.
CallGenerateWithAutoCADAPI(centerPoints, boundaries, toolOutline, available, o) ==
    /\ call = (IF /\ available
                  /\ \/ centerPoints # << >> /\ o[1] # "coinit_failed"
                     \/ boundaries # << >> /\ o[2] # "coinit_failed"
                     \/ boundaries # << >> /\ o[3] # "coinit_failed"
                     \/ toolOutline # << >> /\ o[4] # "coinit_failed"
               THEN InCOM("GenerateWithAutoCADAPI",
                          [centerPoints |-> centerPoints,
                           boundaries |-> boundaries,
                           toolOutline |-> toolOutline])
               ELSE NoCall)
    /\ call' = [fn |-> "GenerateWithAutoCADAPI",
                args |-> [centerPoints |-> centerPoints, boundaries |-> boundaries,
                          toolOutline |-> toolOutline,
                          available |-> available, o |-> o],
                locals |-> << >>,
                result |-> GenerateWithAutoCADAPI(centerPoints, boundaries,
                                                  toolOutline, available, o)]
    /\ pc' = "idle"
    /\ drawn' = << >>
    /\ UNCHANGED <<geometry, transform, clientRect, running, messages, trace,
                   last, fit, accepted>>

\* The functions of AutoCADDrawer are static and read nothing of the window:
\* they are called in the window as it is created, OptimizePointsWithAutoCAD
\* with sequences that hold no point twice, and return at once or reach
\* their first COM call.
DrawerCalls ==
    \/ \E points \in CenterLines :
         /\ \A i, j \in 1..Len(points) : points[i] = points[j] => i = j
         /\ \/ \E r \in SmoothRuns(points) : CallOptimizePoints(points, r)
            \/ /\ Len(points) >= 2
               /\ EnterCOM("OptimizePointsWithAutoCAD", [points |-> points])
    \/ \E a \in HelixInputs, outputPoints \in CenterLines :
         CallCreateHelix(a, outputPoints)
    \/ \E centerPoints \in RefinedLines, available \in BOOLEAN :
       \E o \in PolylineRuns(available) :
         CallGenerateWithAutoCADAPI(centerPoints,
             CalculateBoundaries(centerPoints, DefaultParams.bladeWidth),
             CalculateToolOutline(DefaultParams.drillDiameter,
                                  DefaultParams.totalLength),
             available, o)
    \/ \E centerPoints \in RefinedLines :
         EnterCOM("GenerateWithAutoCADAPI",
                  [centerPoints |-> centerPoints,
                   boundaries |-> CalculateBoundaries(centerPoints,
                                                      DefaultParams.bladeWidth),
                   toolOutline |-> CalculateToolOutline(
                                       DefaultParams.drillDiameter,
                                       DefaultParams.totalLength)])

\* DrawToAutoCAD as OnCommand calls it, on the members GenerateSpiral left,
\* at the return of GenerateWithAutoCADAPI: the step Refine of the window,
\* with the members it found, the way the pass ran and the members it
\* stores kept as the call in hand.  UpdateWindow has been called and has
\* not returned; the call returns when WM_PAINT has been handled.
CallDrawToAutoCAD(available, o) ==
    /\ call = NoCall
    /\ Refined(available, o)
    /\ call' = [fn |-> "DrawToAutoCAD",
                args |-> [members |-> Current, available |-> available, o |-> o],
                locals |-> << >>,
                result |-> DrawToAutoCAD(Current, available, o)]

\* The window takes its messages as in Spec while no call is in hand:
\* WM_COMMAND with the edit controls of DrawerSubmissions, WM_PAINT and
\* WM_SIZE, these two also while a MessageBox is open or a COM call waits,
\* be it one of DrawToAutoCAD or one of a function called directly.
DrawerNext ==
    \/ call = NoCall /\ pc = "idle" /\ last.event = "create" /\ DrawerCalls
    \/ /\ pc = "com_wait"
       /\ call.args.fn = "OptimizePointsWithAutoCAD"
       /\ \E r \in SmoothRuns(call.args.args.points) :
             CallOptimizePoints(call.args.args.points, r)
    \/ /\ pc = "com_wait"
       /\ call.args.fn = "GenerateWithAutoCADAPI"
       /\ \E o \in PolylineRuns(TRUE) :
             CallGenerateWithAutoCADAPI(call.args.args.centerPoints,
                                        call.args.args.boundaries,
                                        call.args.args.toolOutline, TRUE, o)
    \/ Return
    \/ call = NoCall /\ pc = "idle"
          /\ \E p \in DrawerSubmissions : OnCommand(p, INT_MIN)
    \/ CloseValidationBox
    \/ CloseNoDataBox
    \/ /\ pc = "refine"
       /\ \E available \in BOOLEAN : \E o \in PolylineRuns(available) :
             CallDrawToAutoCAD(available, o)
    \/ (call = NoCall \/ pc \in {"update_window", "com_wait"}) /\ OnPaint
    \/ (call = NoCall \/ pc = "com_wait") /\ \E rect \in ClientRects : Resize(rect)

DrawerSpec == Init /\ [][DrawerNext]_vars

(***************************************************************************)
(* The view fit of GenerateSpiral applied directly to what the calculator  *)
(* can hand back for any doubles, the geometry without extent included.    *)
(***************************************************************************)
\* the transform the fit finds in the members: the constructor's, or that of
\* an earlier fit
PriorTransforms ==
    {[scaleX |-> ToDouble(1), scaleY |-> ToDouble(1),
      offsetX |-> Zero, offsetY |-> Zero],
     [scaleX |-> Decimal(17, 2), scaleY |-> Decimal(17, 2),
      offsetX |-> ToDouble(300), offsetY |-> ToDouble(40)]}

FitOutlines == {<< >>, CalculateToolOutline(10, 50)}

FitWidths == {0, 2}

CallFitView(centerPoints, boundaries, toolOutline, rect, prior) ==
    /\ call = NoCall
    /\ call' = [fn |-> "FitView",
                args |-> [centerPoints |-> centerPoints, boundaries |-> boundaries,
                          toolOutline |-> toolOutline, rect |-> rect,
                          prior |-> prior],
                locals |-> [box |-> BoundingBox(centerPoints, boundaries, toolOutline)],
                result |-> FitView(BoundingBox(centerPoints, boundaries, toolOutline),
                                   rect, prior.scaleX, prior.scaleY,
                                   prior.offsetX, prior.offsetY)]
    /\ UNCHANGED window

FitCalls ==
    \E centerPoints \in CenterLines \ {<< >>}, bladeWidth \in FitWidths,
       toolOutline \in FitOutlines, rect \in ClientRects,
       prior \in PriorTransforms :
        CallFitView(centerPoints, CalculateBoundaries(centerPoints, bladeWidth),
                    toolOutline, rect, prior)

FitNext ==
    \/ call = NoCall /\ FitCalls
    \/ Return

FitSpec == Init /\ [][FitNext]_vars

(***************************************************************************)
(* Properties                                                              *)
(***************************************************************************)
Range(seq) == {seq[i] : i \in DOMAIN seq}

\* a parameter set that the specification calls invalid
InvalidParams(p) ==
    \/ p.spiralAngle <= 0 \/ p.spiralAngle >= 90
    \/ p.drillDiameter <= 0 \/ p.totalLength <= 0
    \/ p.bladeWidth <= 0 \/ p.bladeHeight <= 0

\* the last message dispatched was a press of the button with invalid
\* parameters: its handler runs, or has returned
InvalidSubmission == last.event = "command" /\ InvalidParams(last.params)

\* the last message dispatched was a press of the button and the view was fitted
FitDone == last.event = "command" /\ "fit" \in Range(trace)

\* the call in hand is one of CalculateSpiralGroove
SpiralCall == call.fn = "CalculateSpiralGroove"

\* ... with inputs that pass the validation of the window
ValidSpiralCall ==
    /\ SpiralCall
    /\ 0 < call.args.spiralAngle /\ call.args.spiralAngle < 90
    /\ call.args.drillDiameter > 0 /\ call.args.totalLength > 0

\* ... whose revolutions = totalLength / pitch is non-positive, NaN or infinite
FallbackCall ==
    /\ SpiralCall
    /\ FallbackTaken(call.args.spiralAngle, call.args.drillDiameter,
                     call.args.totalLength)

\* the operand of the (int) cast lies strictly between -INT_MAX and INT_MAX
ProductInRange ==
    /\ Less(ToDouble(-INT_MAX), call.locals.product)
    /\ Less(call.locals.product, ToDouble(INT_MAX))

\* n is a truncated toward zero: |n| <= |a| < |n| + 1, and n has no sign a lacks
IsTruncation(n, a) ==
    /\ Leq(ToDouble(Abs(n)), Fabs(a))
    /\ Less(Fabs(a), ToDouble(Abs(n) + 1))
    /\ (n # 0 => (n < 0) = (Sign(a) < 0))

\* n is a rounded to the nearest integer: 2n - 1 <= 2a <= 2n + 1
IsNearest(n, a) ==
    /\ Leq(ToDouble(2 * n - 1), Mul(ToDouble(2), a))
    /\ Leq(Mul(ToDouble(2), a), ToDouble(2 * n + 1))

\* the integers next to a, for a within the range of int
Nearby(a) == {Sign(a) * TruncMag(a) + j : j \in -1..1}

\* the call in hand is the worked example: 30 degrees, diameter 10, length 50,
\* 100 samples per revolution
ExampleCall ==
    /\ SpiralCall
    /\ call.args = [spiralAngle |-> 30, drillDiameter |-> 10, totalLength |-> 50,
                    pointsPerRevolution |-> 100]

\* C1: a press of the button with an invalid parameter runs no point
\* generation, and no step of its handler, from the validation to the return
\* of DrawToAutoCAD, changes the centre line, the boundaries, the tool
\* outline, the scale or the offset, whatever the state before.
C1_InvalidSubmissionChangesNothing ==
    [][(last'.event = "command" /\ InvalidParams(last'.params))
          => (/\ UNCHANGED <<geometry, transform>>
              /\ "calculate" \notin Range(trace'))]_vars

\* the handler of an invalid submission has returned, after the refinement
\* pass and the repaint, while geometry of an earlier one is stored
C1_Witness ==
    /\ InvalidSubmission
    /\ pc = "idle"
    /\ m_centerPoints # << >> /\ m_boundaries # << >> /\ m_toolOutline # << >>
    /\ fit.fitted
    /\ trace = << "validate", "refine", "invalidate", "update_window", "paint" >>
    /\ drawn # << >>

\* C2: every invalid submission shows exactly one message, the validation
\* error, in every reachable state, the initial one included.
C2_OneMessagePerInvalidSubmission ==
    InvalidSubmission => messages = << ValidationMessage >>

\* C3: for 0 < spiralAngle < 90, drillDiameter > 0 and totalLength > 0 the
\* centre line that CalculateSpiralGroove returns has at least 10 points,
\* strictly increasing x, x = 0 at its first and x = totalLength at its last
\* point.
C3_ValidCenterline ==
    (ValidSpiralCall /\ call.result.returns) =>
        /\ Len(call.result.points) >= 10
        /\ \A i \in 1..(Len(call.result.points) - 1) :
              Less(call.result.points[i].x, call.result.points[i + 1].x)
        /\ Eq(call.result.points[1].x, Zero)
        /\ Eq(call.result.points[Len(call.result.points)].x,
              ToDouble(call.args.totalLength))

\* a valid call above the floor of 10 has returned its centre line
C3_Witness ==
    /\ ValidSpiralCall /\ call.result.returns
    /\ call.locals.totalPoints > 10
    /\ call.args.pointsPerRevolution = DefaultPointsPerRevolution

\* C4, as the code has it: the point count is revolutions * samplesPerRevolution
\* truncated toward zero, raised to 10 when that is below 10; for 30 degrees,
\* diameter 10, length 50 and 100 samples per revolution it is 91.
C4_PointCountTruncates ==
    /\ (SpiralCall /\ ProductInRange) =>
          \E n \in Nearby(call.locals.product) :
              /\ IsTruncation(n, call.locals.product)
              /\ call.locals.totalPoints = (IF n < 10 THEN 10 ELSE n)
    /\ ExampleCall => call.locals.totalPoints = 91

\* the worked example has been calculated: a product with a fraction above 1/2
C4_Witness ==
    /\ ExampleCall
    /\ ProductInRange
    /\ ~IsNearest(call.locals.totalPoints, call.locals.product)
    /\ Len(call.result.points) = call.locals.totalPoints + 1

\* C4, as stated: the point count is revolutions * samplesPerRevolution rounded
\* to the nearest integer, raised to 10 when that is below 10; for the worked
\* example it is 92.
C4_PointCountRounds ==
    /\ (SpiralCall /\ ProductInRange) =>
          \E n \in Nearby(call.locals.product) :
              /\ IsNearest(n, call.locals.product)
              /\ call.locals.totalPoints = (IF n < 10 THEN 10 ELSE n)
    /\ ExampleCall => call.locals.totalPoints = 92

\* the call in hand is one of CalculateBoundaries
BoundariesCall == call.fn = "CalculateBoundaries"

\* the boundary sequence of the call is index-aligned with its centre line
Aligned ==
    /\ Len(call.result) = Len(call.args.centerPoints)
    /\ \A i \in 1..Len(call.args.centerPoints) :
          /\ call.result[i].first.x = call.args.centerPoints[i].x
          /\ call.result[i].second.x = call.args.centerPoints[i].x
          /\ Eq(call.result[i].first.y,
                Add(call.args.centerPoints[i].y,
                    Div(ToDouble(call.args.bladeWidth), ToDouble(2))))
          /\ Eq(call.result[i].second.y,
                Sub(call.args.centerPoints[i].y,
                    Div(ToDouble(call.args.bladeWidth), ToDouble(2))))
          /\ Eq(Sub(call.result[i].first.y, call.result[i].second.y),
                ToDouble(call.args.bladeWidth))

\* 2^-52, the distance from 1.0 to the next double
Epsilon == Double(1, -52, <<Limb \div 2, 0, 0, 0>>)

\* a is b to within the rounding of sums of the magnitudes u and v
Near(a, b, u, v) ==
    Leq(Fabs(Sub(a, b)), Mul(Add(Fabs(u), Fabs(v)), Epsilon))

\* the boundary sequence of the call is index-aligned with its centre line,
\* each y the double next to centre.y +- bladeWidth/2
AlignedAsRounded ==
    /\ Len(call.result) = Len(call.args.centerPoints)
    /\ \A i \in 1..Len(call.args.centerPoints) :
          /\ call.result[i].first.x = call.args.centerPoints[i].x
          /\ call.result[i].second.x = call.args.centerPoints[i].x
          /\ Eq(call.result[i].first.y,
                Add(call.args.centerPoints[i].y,
                    Div(ToDouble(call.args.bladeWidth), ToDouble(2))))
          /\ Eq(call.result[i].second.y,
                Sub(call.args.centerPoints[i].y,
                    Div(ToDouble(call.args.bladeWidth), ToDouble(2))))
          /\ Near(Sub(call.result[i].first.y, call.result[i].second.y),
                  ToDouble(call.args.bladeWidth),
                  call.result[i].first.y, call.result[i].second.y)

\* C5, as the code has it: for a centre line of at least two points (or of
\* none) the boundary sequence is index-aligned with it, offset in y only, to
\* the doubles next to centre.y +- bladeWidth/2, which are bladeWidth apart
\* to within their rounding; for a centre line of one point it is empty.
C5_BoundariesAlignedFromTwoPoints ==
    BoundariesCall =>
        IF Len(call.args.centerPoints) = 1 THEN call.result = << >>
        ELSE AlignedAsRounded

\* boundaries have been calculated for a centre line of several points, one
\* of them far out, where the two sums of a blade width of 3 round to
\* doubles 4 apart
C5_Witness ==
    /\ BoundariesCall
    /\ Len(call.args.centerPoints) = MaxCenterLen
    /\ call.args.bladeWidth = 3
    /\ Len(call.result) = MaxCenterLen
    /\ call.args.centerPoints[2].y = FarOut
    /\ Sub(call.result[2].first.y, call.result[2].second.y) = ToDouble(4)

\* C5, as stated: for every centre line the boundary sequence is index-aligned
\* with it.
C5_BoundariesAlignedAlways == BoundariesCall => Aligned

\* C6: when totalLength / pitch is non-positive, NaN or infinite,
\* CalculateSpiralGroove takes revolutions = 1.0 and pitch = totalLength
\* (1.0 for a totalLength that is not positive); the point count is that of
\* one revolution, samplesPerRevolution but at least 10; and where the pitch
\* is totalLength the last point's y is the circumference pi * diameter.
C6_FallbackIsOneRevolution ==
    FallbackCall =>
        /\ call.locals.totalRevolutions = ToDouble(1)
        /\ call.locals.pitch
              = (IF call.args.totalLength > 0 THEN ToDouble(call.args.totalLength)
                 ELSE ToDouble(1))
        /\ call.locals.totalPoints
              = (IF call.args.pointsPerRevolution < 10 THEN 10
                 ELSE call.args.pointsPerRevolution)
        /\ Len(call.result.points) = call.locals.totalPoints + 1
        /\ call.args.totalLength > 0 =>
              Eq(call.result.points[Len(call.result.points)].y,
                 Mul(M_PI, ToDouble(call.args.drillDiameter)))

\* the fallback has been taken with a positive length and a positive diameter
C6_Witness ==
    /\ FallbackCall
    /\ call.args.totalLength > 0 /\ call.args.drillDiameter > 0
    /\ call.args.pointsPerRevolution > 10
    /\ call.locals.pitch = ToDouble(call.args.totalLength)

\* C7: for every input of CalculateSpiralGroove the sampling loop starts with
\* a point count of at least 10 and a pitch that is neither zero nor NaN.
C7_LoopNeverDividesByZero ==
    SpiralCall =>
        /\ call.locals.totalPoints >= 10
        /\ ~IsZero(call.locals.pitch)
        /\ ~IsNaN(call.locals.pitch)

\* the loop has started for a zero angle and a zero diameter, where
\* circumference / tan is 0/0
C7_Witness ==
    /\ SpiralCall
    /\ call.args.spiralAngle = 0 /\ call.args.drillDiameter = 0
    /\ call.args.totalLength <= 0
    /\ IsNaN(RawPitch(Circumference(call.args.drillDiameter),
                      AngleRad(call.args.spiralAngle)))

\* C8: for every input that passes validation the product revolutions *
\* samplesPerRevolution that is converted to the point count is within the
\* range of int.
C8_PointCountWithinInt ==
    ValidSpiralCall => ProductInRange

\* C9: the scale is the same on both axes in every state, and strictly
\* positive after every fit, whatever the size of the client area.
C9_ScaleUniformAndPositive ==
    /\ Eq(m_scaleX, m_scaleY)
    /\ FitDone => Sign(m_scaleX) > 0

\* v mapped to the drawing: model * scale + offset
Mapped(v, scale, offset) == Add(Mul(v, scale), offset)

\* what the rounding of the fit's arithmetic can amount to, in pixels
Tolerance == Decimal(1, 1000000000)

\* a is b, and a is at most b, to within the tolerance
About(a, b) == Leq(Fabs(Sub(a, b)), Tolerance)
AtMostAbout(a, b) == Leq(a, Add(b, Tolerance))

\* [lo, hi] lies centred in the target interval of that origin and extent
Centered(lo, hi, origin, extent) ==
    About(Sub(lo, ToDouble(origin)), Sub(ToDouble(origin + extent), hi))

\* 0.85 x the target extent
Margined(extent) == Mul(Decimal(85, 100), ToDouble(extent))

\* the extents extentX and extentY of the mapped box fill the target: the one
\* of the axis with the lower scale candidate exactly, the other at most
Fills(extentX, extentY, candidateX, candidateY, clientWidth, clientHeight) ==
    IF Leq(candidateX, candidateY)
    THEN /\ About(extentX, Margined(clientWidth))
         /\ AtMostAbout(extentY, Margined(clientHeight))
    ELSE /\ About(extentY, Margined(clientHeight))
         /\ AtMostAbout(extentX, Margined(clientWidth))

\* the box mapped through the members' transform, against the target rectangle
FitsTarget(box, clientWidth, clientHeight) ==
    /\ Centered(Mapped(box.minX, m_scaleX, m_offsetX),
                Mapped(box.maxX, m_scaleX, m_offsetX), 250, clientWidth)
    /\ Centered(Mapped(box.minY, m_scaleY, m_offsetY),
                Mapped(box.maxY, m_scaleY, m_offsetY), 10, clientHeight)
    /\ Fills(Sub(Mapped(box.maxX, m_scaleX, m_offsetX),
                 Mapped(box.minX, m_scaleX, m_offsetX)),
             Sub(Mapped(box.maxY, m_scaleY, m_offsetY),
                 Mapped(box.minY, m_scaleY, m_offsetY)),
             Mul(Div(ToDouble(clientWidth), Sub(box.maxX, box.minX)), Decimal(85, 100)),
             Mul(Div(ToDouble(clientHeight), Sub(box.maxY, box.minY)), Decimal(85, 100)),
             clientWidth, clientHeight)

\* C10: after a fit the bounding box, mapped through model * scale + offset,
\* lies centred on both axes in the target rectangle of origin (250, 10) and
\* size clientWidth x clientHeight; its extent is 0.85 x the target's on the
\* axis with the lower scale candidate and at most that on the other, all to
\* within the rounding of the doubles (a billionth of a pixel).
C10_FittedBoxCenteredWithMargin ==
    FitDone => FitsTarget(fit.locals.box, fit.locals.clientWidth,
                          fit.locals.clientHeight)

\* a fit has been done whose two scale candidates differ
C10_Witness ==
    /\ FitDone
    /\ fit.locals.clientWidth > 0
    /\ ~About(Mul(Sub(fit.locals.box.maxX, fit.locals.box.minX), m_scaleX),
              Margined(fit.locals.clientWidth))
    /\ About(Mul(Sub(fit.locals.box.maxY, fit.locals.box.minY), m_scaleY),
             Margined(fit.locals.clientHeight))

\* the last message handled was a press of the button with parameters that
\* pass the validation, and the handler has returned
AcceptedSubmission ==
    /\ last.event = "command" /\ ~InvalidParams(last.params)
    /\ running /\ pc = "idle"

\* where the step x stands in the steps seq
Position(seq, x) == CHOOSE i \in 1..Len(seq) : seq[i] = x

\* C11: in every accepted submission the bounding-box, scale and offset
\* computation comes after the refinement pass and before the rendering.
C11_FitFollowsRefinement ==
    AcceptedSubmission =>
        /\ {"fit", "refine", "update_window"} \subseteq Range(trace)
        /\ Position(trace, "refine") < Position(trace, "fit")
        /\ Position(trace, "fit") < Position(trace, "update_window")

\* the refinement pass did not run to the end: AutoCAD is not there, or one
\* of the four polyline calls did not produce its polyline
RefinementFailed(available, o) ==
    ~available \/ \E i \in 1..4 : o[i] # "done"

\* the three sequences of the record after are those of the record before
SameSequences(before, after) ==
    /\ after.centerPoints = before.centerPoints
    /\ after.boundaries = before.boundaries
    /\ after.toolOutline = before.toolOutline

FailedPass ==
    /\ call.fn = "GenerateWithAutoCADAPI"
    /\ RefinementFailed(call.args.available, call.args.o)

FailedRedraw ==
    /\ call.fn = "DrawToAutoCAD"
    /\ call.args.members.centerPoints # << >>
    /\ RefinementFailed(call.args.available, call.args.o)

\* the paint that UpdateWindow sends has drawn the sequences of the record s
\* under the stored transform
Rendered(s) ==
    /\ trace[Len(trace)] = "paint"
    /\ drawn = DrawGraphics(s.centerPoints, s.boundaries, s.toolOutline,
                            m_scaleX, m_scaleY, m_offsetX, m_offsetY)

\* C12: when AutoCAD is unavailable or any step of the refinement fails,
\* GenerateWithAutoCADAPI hands the three sequences back unchanged, and
\* DrawToAutoCAD stores them unchanged, goes on to UpdateWindow, has them
\* painted before it returns, and shows no message of its own.
C12_FailedRefinementIsIdentity ==
    /\ FailedPass => SameSequences(call.args, call.result)
    /\ FailedRedraw =>
        /\ SameSequences(call.args.members, call.result)
        /\ SameSequences(call.args.members, Current)
        /\ running
        /\ messages = call.args.members.messages
        /\ call.result.trace =
              call.args.members.trace \o << "refine", "invalidate", "update_window" >>
        /\ pc \in {"update_window", "idle"}
        /\ pc = "idle" => Rendered(call.args.members)

\* C12 happens: a refinement in which the second polyline call throws, on
\* the geometry of a submission, painted when DrawToAutoCAD has returned
C12_Witness ==
    /\ FailedRedraw
    /\ call.args.available
    /\ call.args.o = << "done", "exception", "done", "done" >>
    /\ Len(call.result.centerPoints) = 11
    /\ pc = "idle"
    /\ Len(drawn) = 6

\* C13: whenever OptimizePointsWithAutoCAD, CreateHelixWithAutoCAD or
\* GenerateWithAutoCADAPI returns false, every in/out point sequence passed
\* to it is as it was before the call.
C13_FalseLeavesSequencesUntouched ==
    /\ (call.fn = "OptimizePointsWithAutoCAD"
            /\ call.result.returns /\ ~call.result.ret)
          => call.result.points = call.args.points
    /\ (call.fn = "CreateHelixWithAutoCAD" /\ ~call.result.ret)
          => call.result.outputPoints = call.args.outputPoints
    /\ (call.fn = "GenerateWithAutoCADAPI" /\ ~call.result.ret)
          => SameSequences(call.args, call.result)

\* the box has no extent along x or along y
FlatBox(box) ==
    \/ Sign(Sub(box.maxX, box.minX)) <= 0
    \/ Sign(Sub(box.maxY, box.minY)) <= 0

FlatFit == call.fn = "FitView" /\ FlatBox(call.locals.box)

\* C14: when the bounding box has zero or non-positive extent on either
\* axis the fit is skipped and scale and offsets keep the values they had;
\* nothing is divided by the zero extent.
C14_FlatBoxSkipsFit ==
    FlatFit =>
        /\ ~call.result.fitted
        /\ call.result.scaleX = call.args.prior.scaleX
        /\ call.result.scaleY = call.args.prior.scaleY
        /\ call.result.offsetX = call.args.prior.offsetX
        /\ call.result.offsetY = call.args.prior.offsetY
        /\ IsFinite(call.result.scaleX) /\ IsFinite(call.result.offsetX)
        /\ IsFinite(call.result.scaleY) /\ IsFinite(call.result.offsetY)

\* C14 happens: a centre line that stays at one point, without outline and
\* with blades of width 2, met by the transform an earlier fit left
C14_Witness ==
    /\ FlatFit
    /\ Len(call.args.centerPoints) = 2
    /\ Sign(Sub(call.locals.box.maxX, call.locals.box.minX)) = 0
    /\ Sign(Sub(call.locals.box.maxY, call.locals.box.minY)) > 0
    /\ call.args.prior.scaleX = Decimal(17, 2)
    /\ call.result.scaleX = Decimal(17, 2)

\* the client rectangle that gives the drawing area recorded with the fit
RectOfFit ==
    [left |-> 0, top |-> 0, right |-> fit.locals.clientWidth + 250,
     bottom |-> fit.locals.clientHeight + 20]

\* the stored transform is the one f
TransformIs(f) ==
    /\ m_scaleX = f.scaleX
    /\ m_scaleY = f.scaleY
    /\ m_offsetX = f.offsetX
    /\ m_offsetY = f.offsetY

\* the stored geometry and transform are what the parameters p give in a
\* window that has stored nothing: the prior transform handed to the fit is
\* one no window holds
FromAlone(p) ==
    /\ m_centerPoints =
          CalculateSpiralGroove(p.spiralAngle, p.drillDiameter, p.totalLength,
                                p.bladeWidth, p.bladeHeight,
                                DefaultPointsPerRevolution, INT_MIN).points
    /\ m_boundaries = CalculateBoundaries(m_centerPoints, p.bladeWidth)
    /\ m_toolOutline = CalculateToolOutline(p.drillDiameter, p.totalLength)
    /\ TransformIs(FitView(BoundingBox(m_centerPoints, m_boundaries, m_toolOutline),
                           RectOfFit, NaN, NaN, NaN, NaN))

\* C15: after any sequence of submissions the stored centre line,
\* boundaries, outline and transform are those the most recent valid
\* submission produces alone; nothing of an earlier submission remains.
C15_StoredFromLastValidSubmission ==
    accepted # << >> => FromAlone(accepted[1])

\* C15 happens: the short tool was accepted, the window was resized and an
\* invalid submission followed
C15_Witness ==
    /\ accepted = << ShortTool >>
    /\ InvalidSubmission /\ pc = "idle"
    /\ clientRect.right # fit.locals.clientWidth + 250
    /\ Len(m_centerPoints) = 11

\* the vertices a polyline through pts has under the stored transform
Polyline(pts) ==
    [i \in 1..Len(pts) |->
        [X |-> ToFloat(Mapped(pts[i].x, m_scaleX, m_offsetX)),
         Y |-> ToFloat(Mapped(pts[i].y, m_scaleY, m_offsetY))]]

\* the polylines of what was drawn: what follows the setting of the
\* smoothing mode and the clearing of the background
Drawn == [i \in 1..Len(drawn) - 2 |-> drawn[i + 2].points]

\* what was drawn is the four polylines of the stored geometry in the order
\* outline, left boundary, right boundary, centre line
PaintedInOrder ==
    /\ drawn[1] = SetSmoothingMode
    /\ drawn[2] = Clear
    /\ m_centerPoints # << >> =>
          Drawn = << Polyline(m_toolOutline), Polyline(LeftPoints(m_boundaries)),
                     Polyline(RightPoints(m_boundaries)), Polyline(m_centerPoints) >>

\* C16: every render draws the tool outline, the left boundary, the right
\* boundary and the centre line in that order, each vertex at
\* model * scale + offset under the stored transform (the float next to it,
\* the PointF the code hands to DrawLines), and changes none of the stored
\* sequences nor the transform.
C16_RenderOrderAndMapping ==
    /\ [](drawn # << >> => PaintedInOrder)
    /\ [][drawn' # << >> => UNCHANGED <<geometry, transform>>]_vars

\* C16 happens: the paint that UpdateWindow sends, of the 16-point centre
\* line of an accepted submission
C16_Witness ==
    /\ AcceptedSubmission
    /\ trace[Len(trace)] = "paint"
    /\ Len(m_centerPoints) = 16
    /\ Len(drawn) = 6
    /\ drawn[6].count = 16
    /\ drawn[3].count = 5

OutlineCall == call.fn = "CalculateToolOutline"

\* the corners of the outline for length L and half diameter r, closed
Corners(L, r) ==
    << Point2D(Zero, Sub(Zero, r)), Point2D(L, Sub(Zero, r)), Point2D(L, r),
       Point2D(Zero, r), Point2D(Zero, Sub(Zero, r)) >>

\* the points p and q have equal coordinates (as == has it: -0.0 is 0.0)
SamePoint(p, q) == Eq(p.x, q.x) /\ Eq(p.y, q.y)

\* every element of the doubles as equals one of bs, and the other way round
SameValues(as, bs) ==
    /\ \A a \in as : \E b \in bs : Eq(a, b)
    /\ \A b \in bs : \E a \in as : Eq(a, b)

\* C17: CalculateToolOutline returns exactly the five points (0, -r),
\* (L, -r), (L, r), (0, r), (0, -r) with r = drillDiameter / 2: a closed
\* rectangle whose x coordinates are 0 and L and whose y coordinates are
\* -drillDiameter / 2 and drillDiameter / 2.
C17_OutlineIsClosedRectangle ==
    OutlineCall =>
        /\ Len(call.result) = 5
        /\ \A i \in 1..5 :
              SamePoint(call.result[i],
                        Corners(ToDouble(call.args.totalLength),
                                Div(ToDouble(call.args.drillDiameter),
                                    ToDouble(2)))[i])
        /\ call.result[5] = call.result[1]
        /\ SameValues({call.result[i].x : i \in 1..Len(call.result)},
                      {Zero, ToDouble(call.args.totalLength)})
        /\ SameValues({call.result[i].y : i \in 1..Len(call.result)},
                      {Div(ToDouble(-call.args.drillDiameter), ToDouble(2)),
                       Div(ToDouble(call.args.drillDiameter), ToDouble(2))})

\* C17 happens: the outline of the default tool
C17_Witness ==
    /\ OutlineCall
    /\ call.args = [drillDiameter |-> 10, totalLength |-> 50]
    /\ call.result[3] = Point2D(ToDouble(50), ToDouble(5))

\* the blade heights a submission is compared under
OtherHeights == {1, 2, 7}

\* the members s are the stored geometry and transform
StoredIs(s) ==
    /\ s.centerPoints = m_centerPoints
    /\ s.boundaries = m_boundaries
    /\ s.toolOutline = m_toolOutline
    /\ TransformIs(s)

\* C18: two submissions that differ only in a valid bladeHeight leave the
\* same centre line, boundaries, outline and transform (in a window of the
\* size of the fit); bladeHeight is only looked at by the validation, which
\* rejects it when it is not positive.
C18_BladeHeightOnlyValidated ==
    (AcceptedSubmission /\ clientRect = RectOfFit) =>
        /\ \A h \in OtherHeights :
              StoredIs(GenerateSpiral([last.params EXCEPT !.bladeHeight = h], INT_MIN))
        /\ GenerateSpiral([last.params EXCEPT !.bladeHeight = 0], INT_MIN).messages
              = << ValidationMessage >>

\* C18 happens: the short tool submitted with blade height 2 instead of 1
C18_Witness ==
    /\ AcceptedSubmission /\ clientRect = RectOfFit
    /\ last.params = [ShortTool EXCEPT !.bladeHeight = 2]
    /\ Len(m_centerPoints) = 11

\* C19: in every state of the window, after any submissions and whatever
\* the refinement pass did, each of its four polyline calls running in any
\* way, the stored boundary sequence is as long as the stored centre line
\* and its i-th pair has both points at the x of the i-th centre point; the
\* pass has dropped no pair of the boundaries it was given.
C19_StoredBoundariesAligned ==
    /\ Len(m_boundaries) = Len(m_centerPoints)
    /\ \A i \in 1..Len(m_boundaries) :
          /\ m_boundaries[i].first.x = m_centerPoints[i].x
          /\ m_boundaries[i].second.x = m_centerPoints[i].x
    /\ call.fn = "DrawToAutoCAD" =>
          Len(m_boundaries) = Len(call.args.members.boundaries)

\* C19 happens: the geometry of an accepted submission has been through a
\* refinement pass whose four polyline calls all ran differently, the one
\* on the left list throwing and the one on the right list finding no
\* application, and is stored and painted
C19_Witness ==
    /\ call.fn = "DrawToAutoCAD"
    /\ call.args.available
    /\ call.args.o = << "done", "exception", "no_app", "coinit_failed" >>
    /\ AcceptedSubmission
    /\ "refine" \in Range(trace)
    /\ Len(m_boundaries) = 11
    /\ m_boundaries[11].first.x = ToDouble(5)

\* the extents of the bounding box the last fit looked at
RangeX == Sub(fit.locals.box.maxX, fit.locals.box.minX)
RangeY == Sub(fit.locals.box.maxY, fit.locals.box.minY)

\* C20: for every parameter set that passes the validation the fallback
\* branch of the calculator is not taken and the bounding box has positive
\* extent on both axes, totalLength along x and at least drillDiameter along
\* y; every accepted submission refits and the fit is never skipped.
C20_AcceptedSubmissionRefits ==
    /\ "fit_skipped" \notin Range(trace)
    /\ AcceptedSubmission =>
          /\ ~FallbackTaken(last.params.spiralAngle, last.params.drillDiameter,
                            last.params.totalLength)
          /\ fit.fitted
          /\ "fit" \in Range(trace)
          /\ Sign(RangeX) > 0 /\ Sign(RangeY) > 0
          /\ RangeX = ToDouble(last.params.totalLength)
          /\ Leq(ToDouble(last.params.drillDiameter), RangeY)

\* C20 happens: the short tool of length 5 has been accepted and fitted, its
\* box as high as the outline
C20_Witness ==
    /\ AcceptedSubmission
    /\ last.params.totalLength = 5
    /\ fit.fitted
    /\ RangeX = ToDouble(5)
    /\ RangeY = ToDouble(10)

\* the pair is the one of the centre point: both points at its x, the first
\* half the blade width above it and the second as far below
PairOf(pair, center, bladeWidth) ==
    /\ pair.first.x = center.x /\ pair.second.x = center.x
    /\ Eq(pair.first.y, Add(center.y, Div(ToDouble(bladeWidth), ToDouble(2))))
    /\ Eq(pair.second.y, Sub(center.y, Div(ToDouble(bladeWidth), ToDouble(2))))

\* C21: CalculateBoundaries returns no pair for a centre line of fewer than
\* two points (none or one), and for a centre line of two or more points
\* exactly one pair per centre point, in the order of the centre points.
C21_BoundariesEmptyBelowTwoPoints ==
    BoundariesCall =>
        /\ Len(call.args.centerPoints) < 2 => Len(call.result) = 0
        /\ Len(call.args.centerPoints) >= 2 =>
              /\ DOMAIN call.result = DOMAIN call.args.centerPoints
              /\ \A i \in DOMAIN call.result :
                    PairOf(call.result[i], call.args.centerPoints[i],
                           call.args.bladeWidth)

\* C21 happens: a centre line of the single point (1, 2) with blades of
\* width 2 has been given and nothing was returned
C21_Witness ==
    /\ BoundariesCall
    /\ call.args.centerPoints = << Point2D(ToDouble(1), ToDouble(2)) >>
    /\ call.args.bladeWidth = 2
    /\ call.result = << >>

=============================================================================
